---------------------------- MODULE Spec2Model ----------------------------
(***************************************************************************)
(* A model of cashflow.py: the two character-level line parsers, the       *)
(* category registry and its hierarchy pass, the journal loader and the    *)
(* bottom-up aggregation of generate_cashflow_report; and of modstat.py:   *)
(* the line counter count_lines and the totals of main and process_file.   *)
(*                                                                         *)
(* Text is a sequence of one-character strings.  Python indices are kept   *)
(* 0-based as in the source: Slice(s, a, b) is s[a:b], and cat_list[i] of  *)
(* the source is Cat(i) here.  A dollar amount is held as its exact number *)
(* of cents (292.03 is 29203).  None is <<>> for a text value, 0 for a     *)
(* level and NoError for an error message: the source tests all three by   *)
(* truthiness only.                                                        *)
(*                                                                         *)
(* The amount field is modelled a second time as the source computes it,   *)
(* in the arithmetic of Python floats (AmtChar, FloatAmount), to see what  *)
(* the report's "{0:.2f}" prints for the amount a line has, and so is the  *)
(* aggregation (FloatFold), whose accumulators are floats.                 *)
(***************************************************************************)
EXTENDS Integers, Sequences, FiniteSets, TLC

VARIABLES
    pc,            \* where main() is: "cat", "hier", "journal", "agg", "report", "done", "exit"; "input", "parsed", "printed" in the parser specifications; "count" in count_lines, "files", "end" in modstat's main
    cat_list,      \* global cat_list: the CatCode objects, in file order
    cat_dict,      \* global cat_dict: category code text -> cat_list index
    journal_list,  \* global journal_list: the Journal objects, in file order
    line_nbr,      \* line_nbr of the enumerate(file, 1) loop in progress
    lvl,           \* lvl of the aggregation loop (4, 3, 2)
    cidx,          \* idx / cidx of the hierarchy and aggregation loops
    error,         \* what the program printed before sys.exit(1), or NoError
    line,          \* the line most recently read (the parser's input)
    res,           \* what the parser returned for line
    working_year,  \* working_year of do_startup_activity, the journal_year of main
    todo,          \* todo of generate_cashflow_report: which months the report prints
    months,        \* months of generate_cashflow_report: the divisor of the averages
    source,        \* modstat: the characters of source that count_lines has read
    cl,            \* modstat: the locals of count_lines
    docstring_lines,         \* modstat: global docstring_lines
    total_blank_lines,       \* modstat: global total_blank_lines
    total_comment_lines,     \* modstat: global total_comment_lines
    total_executable_lines,  \* modstat: global total_executable_lines
    total_docstring_lines,   \* modstat: global total_docstring_lines
    file_count,    \* modstat: file_count of main
    printed,       \* modstat: what main and process_file have printed, in order
    import_names,  \* modstat: global import_names
    from_import_names  \* modstat: global from_import_names

\* The variables of modstat.py; the others are those of cashflow.py.
modstat_vars ==
    <<source, cl, docstring_lines, total_blank_lines, total_comment_lines,
      total_executable_lines, total_docstring_lines, file_count, printed,
      import_names, from_import_names>>

vars == <<pc, cat_list, cat_dict, journal_list, line_nbr, lvl, cidx, error, line, res, working_year, todo, months, modstat_vars>>

-----------------------------------------------------------------------------
(* Characters and text *)

NL == "\n"
SP == " "
TAB == "\t"
\* U+00B2 SUPERSCRIPT TWO: str.isdigit() is True for it, int() and float() raise ValueError.
SUP2 == "U+00B2"

DecimalDigits == {"0", "1", "2", "3", "4", "5", "6", "7", "8", "9"}

\* str.isdigit(): the decimal digits and the other characters of Unicode
\* property Numeric_Type=Digit, of which SUP2 stands for all.
IsDigit(char) == char \in DecimalDigits \cup {SUP2}

\* int(char) and float(char) of one character; -1 stands for ValueError.
DigitValue(char) ==
    CASE char = "0" -> 0 [] char = "1" -> 1 [] char = "2" -> 2 [] char = "3" -> 3
      [] char = "4" -> 4 [] char = "5" -> 5 [] char = "6" -> 6 [] char = "7" -> 7
      [] char = "8" -> 8 [] char = "9" -> 9 [] OTHER -> -1

\* s[a:b] for 0 <= a <= b <= len(s)
Slice(s, a, b) == SubSeq(s, a + 1, b)

\* str.rstrip(): drop trailing whitespace (space, tab, newline).
RECURSIVE rstrip(_)
rstrip(s) ==
    IF s # <<>> /\ s[Len(s)] \in {SP, TAB, NL}
    THEN rstrip(SubSeq(s, 1, Len(s) - 1))
    ELSE s

None == <<>>
NoError == "None"
ValueError == "ValueError"
\* The uncaught exception of a division by 0
ZeroDivisionError == "ZeroDivisionError"

-----------------------------------------------------------------------------
(* parse_cat_file_line *)

CatRet(error_msg, cat_code, descr, comment, level) ==
    [error_msg |-> error_msg, cat_code |-> cat_code, descr |-> descr,
     comment |-> comment, level |-> level]

CatSkip == CatRet(NoError, None, None, None, 0)
CatErr(msg) == CatRet(msg, None, None, None, 0)

\* The locals of parse_cat_file_line before the loop; ret is set by a return.
CatStart ==
    [parse_state |-> "START", start_idx |-> 0, level |-> 0, digit_count |-> 0,
     cat_code |-> None, descr_start |-> 0, descr |-> None, comment_start |-> 0,
     returned |-> FALSE, ret |-> CatSkip]

CatReturn(st, r) == [st EXCEPT !.returned = TRUE, !.ret = r]

\* Deepest level a category code may have.
MaxLevel == 4
\* Most digits a segment after the first may have.
MaxSegDigits == 2

\* NextLevel without the increment
SameLevel(level) == level

\* level += 1, on the "." that ends a segment after the first
NextLevel(level) == level + 1

\* Level1 with a state that takes further digits into the code
Level1ManyDigits(st, cat_file_line, idx, char) ==
    IF char = "." THEN [st EXCEPT !.level = 2, !.parse_state = "LEVEL234A"]
    ELSE IF char = SP
         THEN [st EXCEPT !.cat_code = Slice(cat_file_line, st.start_idx, idx),
                         !.parse_state = "START_DESCR"]
    ELSE IF IsDigit(char) THEN st
    ELSE CatReturn(st, CatErr("Error, invalid category file format"))

\* The state CS.LEVEL1, right after the first digit of the code
Level1(st, cat_file_line, idx, char) ==
    IF char = "." THEN [st EXCEPT !.level = 2, !.parse_state = "LEVEL234A"]
    ELSE IF char = SP
         THEN [st EXCEPT !.cat_code = Slice(cat_file_line, st.start_idx, idx),
                         !.parse_state = "START_DESCR"]
    ELSE CatReturn(st, CatErr("Error, invalid category file format"))

\* One iteration of the for loop: the character char at index idx.
CatChar(st, cat_file_line, idx, char) ==
    CASE st.parse_state = "START" ->
           IF char = SP THEN st
           ELSE IF char \in {"#", NL} THEN CatReturn(st, CatSkip)
           ELSE IF char \in DecimalDigits \ {"0"}
                THEN [st EXCEPT !.start_idx = idx, !.level = 1, !.parse_state = "LEVEL1"]
           ELSE CatReturn(st, CatErr("Error, invalid category file format"))
      [] st.parse_state = "LEVEL1" -> Level1(st, cat_file_line, idx, char)
      [] st.parse_state = "LEVEL234A" ->
           IF char \in DecimalDigits \ {"0"}
           THEN [st EXCEPT !.parse_state = "LEVEL234B", !.digit_count = 1]
           ELSE CatReturn(st, CatErr("Error, invalid category file format"))
      [] st.parse_state = "LEVEL234B" ->
           IF IsDigit(char)
           THEN IF st.digit_count + 1 <= MaxSegDigits
                THEN [st EXCEPT !.digit_count = st.digit_count + 1]
                ELSE CatReturn(st, CatErr("Error, invalid category code, too many digits"))
           ELSE IF char = "."
           THEN IF NextLevel(st.level) <= MaxLevel
                THEN [st EXCEPT !.level = NextLevel(st.level), !.parse_state = "LEVEL234A"]
                ELSE CatReturn(st, CatErr("Error, invalid category code, level nested too deeply"))
           ELSE IF char = SP
                THEN [st EXCEPT !.cat_code = Slice(cat_file_line, st.start_idx, idx),
                                !.parse_state = "START_DESCR"]
           ELSE CatReturn(st, CatErr("Error, invalid category file format"))
      [] st.parse_state = "START_DESCR" ->
           IF char = SP THEN st
           ELSE IF char \in {"#", NL}
                THEN CatReturn(st, CatErr("Error, invalid category file format, missing description"))
           ELSE [st EXCEPT !.descr_start = idx, !.parse_state = "END_DESCR"]
      [] st.parse_state = "END_DESCR" ->
           IF char \in {"#", NL}
           THEN LET descr == rstrip(Slice(cat_file_line, st.descr_start, idx))
                IN  IF char = NL
                    THEN CatReturn(st, CatRet(NoError, st.cat_code, descr, <<>>, st.level))
                    ELSE [st EXCEPT !.descr = descr, !.comment_start = idx,
                                    !.parse_state = "END_COMMENT"]
           ELSE st
      [] OTHER ->  \* END_COMMENT
           IF char = NL
           THEN LET comment == rstrip(Slice(cat_file_line, st.comment_start, idx))
                IN  CatReturn(st, CatRet(NoError, st.cat_code, st.descr, comment, st.level))
           ELSE st

\* The for loop from index idx on, and what follows it when the line runs out.
RECURSIVE CatLoop(_, _, _)
CatLoop(st, cat_file_line, idx) ==
    IF idx >= Len(cat_file_line)
    THEN IF st.parse_state = "START" THEN CatSkip
         ELSE CatErr("Error, invalid category file format")
    ELSE LET nxt == CatChar(st, cat_file_line, idx, cat_file_line[idx + 1])
         IN  IF nxt.returned THEN nxt.ret ELSE CatLoop(nxt, cat_file_line, idx + 1)

parse_cat_file_line(cat_file_line) == CatLoop(CatStart, cat_file_line, 0)

-----------------------------------------------------------------------------
(* parse_journal_file_line *)

\* Maximum date for each month, 29 days for February; MAX_DATE[m] of the
\* source is MAX_DATE[m + 1] here.
MAX_DATE == <<0, 31, 29, 31, 30, 31, 30, 31, 31, 30, 31, 30, 31>>

\* isleap by the rule of 4 alone
LeapEveryFourth(year) == year % 4 = 0

\* calendar.isleap
isleap(year) == year % 4 = 0 /\ (year % 100 # 0 \/ year % 400 = 0)

\* The character of one decimal digit d, 0 <= d <= 9.
DigitChar(d) ==
    CASE d = 0 -> "0" [] d = 1 -> "1" [] d = 2 -> "2" [] d = 3 -> "3" [] d = 4 -> "4"
      [] d = 5 -> "5" [] d = 6 -> "6" [] d = 7 -> "7" [] d = 8 -> "8" [] OTHER -> "9"

\* str(n) for n >= 0
RECURSIVE DecimalText(_)
DecimalText(n) ==
    IF n < 10 THEN <<DigitChar(n)>>
    ELSE Append(DecimalText(n \div 10), DigitChar(n % 10))

\* ZeroPad for a format without its width ("{0:d}")
NoPad(text, width) == text

\* "{:0<width>d}".format(n) for n >= 0: zero-padded on the left to width.
RECURSIVE ZeroPad(_, _)
ZeroPad(text, width) ==
    IF Len(text) >= width THEN text ELSE ZeroPad(<<"0">> \o text, width)

\* "{0:02d}/{1:02d}/{2:04d}".format(month_value, date_value, journal_year)
FormatDate(month_value, date_value, year) ==
    ZeroPad(DecimalText(month_value), 2) \o <<"/">> \o
    ZeroPad(DecimalText(date_value), 2) \o <<"/">> \o
    ZeroPad(DecimalText(year), 4)

-----------------------------------------------------------------------------
(* Python float: the arithmetic of IEEE 754 binary64                       *)
(*                                                                         *)
(* A natural number is written in limbs of LimbBits bits, lowest first,    *)
(* without zero limbs at the top (0 is <<>>).  The magnitude of a float of *)
(* the amount fields is such a number counted in units of 2^-FracBits:     *)
(* every double from 0.01 up is a whole number of these units.             *)

LimbBits == 15
Base == 2 ^ LimbBits
\* Bits of the significand of a double (sys.float_info.mant_dig).
MantissaBits == 53
\* The fraction takes FracLimbs limbs.
FracLimbs == 4
FracBits == FracLimbs * LimbBits

Zeros(k) == [i \in 1 .. k |-> 0]

RECURSIVE Norm(_)
Norm(a) == IF a # <<>> /\ a[Len(a)] = 0 THEN Norm(SubSeq(a, 1, Len(a) - 1)) ELSE a

\* a + b + carry
RECURSIVE BigAdd(_, _, _)
BigAdd(a, b, carry) ==
    IF a = <<>> /\ b = <<>> THEN (IF carry = 0 THEN <<>> ELSE <<carry>>)
    ELSE LET x == (IF a = <<>> THEN 0 ELSE a[1]) + (IF b = <<>> THEN 0 ELSE b[1]) + carry
         IN  <<x % Base>> \o BigAdd(IF a = <<>> THEN <<>> ELSE Tail(a),
                                    IF b = <<>> THEN <<>> ELSE Tail(b), x \div Base)

\* a - b - borrow, for a >= b + borrow; the top limbs may come out zero
RECURSIVE BigSubLimbs(_, _, _)
BigSubLimbs(a, b, borrow) ==
    IF a = <<>> THEN <<>>
    ELSE LET x == a[1] - (IF b = <<>> THEN 0 ELSE b[1]) - borrow
         IN  <<x % Base>> \o BigSubLimbs(Tail(a), IF b = <<>> THEN <<>> ELSE Tail(b),
                                         IF x < 0 THEN 1 ELSE 0)

BigSub(a, b) == Norm(BigSubLimbs(a, b, 0))

\* a * k + carry, for 0 < k < Base
RECURSIVE BigMulSmall(_, _, _)
BigMulSmall(a, k, carry) ==
    IF a = <<>> THEN (IF carry = 0 THEN <<>> ELSE <<carry>>)
    ELSE LET x == a[1] * k + carry
         IN  <<x % Base>> \o BigMulSmall(Tail(a), k, x \div Base)

\* quotient (its top limbs may be zero) and remainder of a by k, 0 < k < Base
RECURSIVE BigDivSmall(_, _)
BigDivSmall(a, k) ==
    IF a = <<>> THEN [q |-> <<>>, r |-> 0]
    ELSE LET hi == BigDivSmall(Tail(a), k)
             x == hi.r * Base + a[1]
         IN  [q |-> <<x \div k>> \o hi.q, r |-> x % k]

\* -1, 0, 1 as a is below, equal to or above b
RECURSIVE BigCmp(_, _)
BigCmp(a, b) ==
    IF Len(a) # Len(b) THEN (IF Len(a) < Len(b) THEN -1 ELSE 1)
    ELSE IF a = <<>> THEN 0
    ELSE IF a[Len(a)] # b[Len(b)] THEN (IF a[Len(a)] < b[Len(b)] THEN -1 ELSE 1)
    ELSE BigCmp(SubSeq(a, 1, Len(a) - 1), SubSeq(b, 1, Len(b) - 1))

RECURSIVE SmallBitLen(_)
SmallBitLen(n) == IF n = 0 THEN 0 ELSE 1 + SmallBitLen(n \div 2)

BitLen(a) == IF a = <<>> THEN 0 ELSE LimbBits * (Len(a) - 1) + SmallBitLen(a[Len(a)])

\* a * 2^sh and floor(a / 2^sh)
ShiftLeft(a, sh) ==
    IF a = <<>> THEN <<>>
    ELSE Zeros(sh \div LimbBits) \o BigMulSmall(a, 2 ^ (sh % LimbBits), 0)

ShiftRight(a, sh) ==
    IF sh \div LimbBits >= Len(a) THEN <<>>
    ELSE Norm(BigDivSmall(SubSeq(a, sh \div LimbBits + 1, Len(a)), 2 ^ (sh % LimbBits)).q)

\* Round to nearest, ties to even, at the bit 2^sh: a is the floor of the
\* exact value and inexact says that the exact value lies above a.
RoundAt(a, sh, inexact) ==
    IF sh <= 0 THEN a
    ELSE LET q == ShiftRight(a, sh)
             low == BigSub(a, ShiftLeft(q, sh))
             half == ShiftLeft(<<1>>, sh - 1)
             c == BigCmp(low, half)
             odd == q # <<>> /\ q[1] % 2 = 1
             up == c > 0 \/ (c = 0 /\ (inexact \/ odd))
         IN  ShiftLeft(IF up THEN BigAdd(q, <<1>>, 0) ELSE q, sh)

\* The double nearest to the exact value: MantissaBits significant bits are kept.
RoundToDouble(a, inexact) == RoundAt(a, BitLen(a) - MantissaBits, inexact)

\* float(char) of a decimal digit
FloatOfDigit(d) == IF d = 0 THEN <<>> ELSE Zeros(FracLimbs) \o <<d>>

\* x + y, and (x*10.0) + y for a digit y: 10.0*x is rounded, then the sum
FloatAdd(x, y) == RoundToDouble(BigAdd(x, y, 0), FALSE)
FloatMul10Add(x, y) == FloatAdd(RoundToDouble(BigMulSmall(x, 10, 0), FALSE), y)

\* x / 100.0: the quotient is taken to FracLimbs further limbs, rounded, and
\* the further limbs, then all zero, are dropped.
FloatDiv100(x) ==
    IF x = <<>> THEN <<>>
    ELSE LET dv == BigDivSmall(Zeros(FracLimbs) \o x, 100)
             r == RoundToDouble(Norm(dv.q), dv.r # 0)
         IN  SubSeq(r, FracLimbs + 1, Len(r))

\* A float with its sign: -0.0 is a value of its own.
Float(neg, mag) == [neg |-> neg, mag |-> mag]
FloatZero == Float(FALSE, <<>>)

\* jamt = dollars + (cents/100.0); if sign_flag: jamt = -jamt
FloatAmount(sign_flag, dollars, cents) == Float(sign_flag, FloatAdd(dollars, FloatDiv100(cents)))

\* The decimal digits of a natural number in limbs
RECURSIVE BigText(_)
BigText(a) ==
    IF a = <<>> THEN <<>>
    ELSE LET dv == BigDivSmall(a, 10) IN Append(BigText(Norm(dv.q)), DigitChar(dv.r))

\* "{0:.2f}".format(x): x to the nearest hundredth, ties to even, the sign
\* kept also where the digits are all zero.
FormatAmount(x) ==
    LET hundredths == ShiftRight(RoundAt(BigMulSmall(x.mag, 100, 0), FracBits, FALSE), FracBits)
        digits == ZeroPad(BigText(hundredths), 3)
    IN  (IF x.neg THEN <<"-">> ELSE <<>>) \o SubSeq(digits, 1, Len(digits) - 2)
            \o <<".">> \o SubSeq(digits, Len(digits) - 1, Len(digits))

-----------------------------------------------------------------------------
(* parse_journal_file_line, continued *)

JrnRet(error_msg, jdate, jdescr, jamt, jtype, jcat_code) ==
    [error_msg |-> error_msg, jdate |-> jdate, jdescr |-> jdescr, jamt |-> jamt,
     jtype |-> jtype, jcat_code |-> jcat_code]

\* JrnSkip as the return of a format error
JrnSkipAsFormatError == JrnRet("Error, invalid journal file format", None, None, 0, None, None)

\* return None,None,None,None,None,None: a blank or comment line
JrnSkip == JrnRet(NoError, None, None, 0, None, None)
JrnErr(msg) == JrnRet(msg, None, None, 0, None, None)

\* The locals of parse_journal_file_line before the loop.
JrnStart ==
    [parse_state |-> "START", month_value |-> 0, date_value |-> 0, digit_ctr |-> 0,
     jdate |-> None, descr_start |-> 0, jdescr |-> None, sign_flag |-> FALSE,
     dollars |-> 0, cents |-> 0, jamt |-> 0, type_start |-> 0, jtype |-> None,
     cat_start |-> 0, returned |-> FALSE, ret |-> JrnSkip]

JrnReturn(st, r) == [st EXCEPT !.returned = TRUE, !.ret = r]

\* int(char) or float(char) raised ValueError: the exception leaves the function.
JrnRaise(st) == JrnReturn(st, JrnErr(ValueError))

\* Digits a month or a day may have.
MaxDateDigits == 2
\* Digits the cents must have.
CentsDigits == 2

\* jamt = dollars + (cents/100.0), negated under sign_flag; in cents.
Amount(sign_flag, dollars, cents) ==
    IF sign_flag THEN 0 - (dollars * 100 + cents) ELSE dollars * 100 + cents

\* The branch of the TJ.DATE state taken on the comma that ends the date.
DateComma(st, journal_year) ==
    IF 1 <= st.date_value /\ st.date_value <= MAX_DATE[st.month_value + 1]
    THEN IF st.month_value = 2 /\ st.date_value = 29 /\ ~isleap(journal_year)
         THEN JrnReturn(st, JrnErr("Error, invalid leap year date in journal file"))
         ELSE [st EXCEPT !.jdate = FormatDate(st.month_value, st.date_value, journal_year),
                         !.parse_state = "START_DESCR"]
    ELSE JrnReturn(st, JrnErr("Error, invalid date in journal file"))

\* One iteration of the for loop: the character char at index idx.
JrnChar(st, journal_file_line, journal_year, idx, char) ==
    CASE st.parse_state = "START" ->
           IF char = SP THEN st
           ELSE IF char \in {"#", NL} THEN JrnReturn(st, JrnSkip)
           ELSE IF IsDigit(char)
                THEN IF DigitValue(char) < 0 THEN JrnRaise(st)
                     ELSE [st EXCEPT !.month_value = DigitValue(char), !.digit_ctr = 1,
                                     !.parse_state = "MONTH"]
           ELSE JrnReturn(st, JrnErr("Error, invalid journal file format"))
      [] st.parse_state = "MONTH" ->
           IF IsDigit(char)
           THEN IF DigitValue(char) < 0 THEN JrnRaise(st)
                ELSE IF st.digit_ctr + 1 <= MaxDateDigits
                THEN [st EXCEPT !.month_value = st.month_value * 10 + DigitValue(char),
                                !.digit_ctr = st.digit_ctr + 1]
                ELSE JrnReturn(st, JrnErr("Error, invalid month in journal file"))
           ELSE IF char = "/" /\ 1 <= st.month_value /\ st.month_value <= 12
                THEN [st EXCEPT !.digit_ctr = 0, !.date_value = 0, !.parse_state = "DATE"]
           ELSE JrnReturn(st, JrnErr("Error, invalid month in journal file"))
      [] st.parse_state = "DATE" ->
           IF IsDigit(char)
           THEN IF DigitValue(char) < 0 THEN JrnRaise(st)
                ELSE IF st.digit_ctr + 1 <= MaxDateDigits
                THEN [st EXCEPT !.date_value = st.date_value * 10 + DigitValue(char),
                                !.digit_ctr = st.digit_ctr + 1]
                ELSE JrnReturn(st, JrnErr("Error, invalid date in journal file"))
           ELSE IF char = "," THEN DateComma(st, journal_year)
           ELSE JrnReturn(st, JrnErr("Error, invalid date in journal file"))
      [] st.parse_state = "START_DESCR" ->
           IF char = SP THEN st
           ELSE IF char \notin {",", NL}
                THEN [st EXCEPT !.descr_start = idx, !.parse_state = "END_DESCR"]
           ELSE JrnReturn(st, JrnErr("Error, invalid description in journal file"))
      [] st.parse_state = "END_DESCR" ->
           IF char = ","
           THEN [st EXCEPT !.jdescr = rstrip(Slice(journal_file_line, st.descr_start, idx)),
                           !.sign_flag = FALSE, !.parse_state = "START_AMT"]
           ELSE st
      [] st.parse_state = "START_AMT" ->
           IF char = SP THEN st
           ELSE IF char = "-"
                THEN [st EXCEPT !.sign_flag = TRUE, !.digit_ctr = 0, !.dollars = 0,
                                !.parse_state = "DOLLARS"]
           ELSE IF IsDigit(char)
                THEN IF DigitValue(char) < 0 THEN JrnRaise(st)
                     ELSE [st EXCEPT !.digit_ctr = 1, !.dollars = DigitValue(char),
                                     !.parse_state = "DOLLARS"]
           ELSE JrnReturn(st, JrnErr("Error, invalid amount in journal file"))
      [] st.parse_state = "DOLLARS" ->
           IF IsDigit(char)
           THEN IF DigitValue(char) < 0 THEN JrnRaise(st)
                ELSE [st EXCEPT !.digit_ctr = st.digit_ctr + 1,
                                !.dollars = st.dollars * 10 + DigitValue(char)]
           ELSE IF char = "." /\ st.digit_ctr # 0
                THEN [st EXCEPT !.digit_ctr = 0, !.cents = 0, !.parse_state = "CENTS"]
           ELSE JrnReturn(st, JrnErr("Error, invalid amount in journal file"))
      [] st.parse_state = "CENTS" ->
           IF IsDigit(char)
           THEN IF DigitValue(char) < 0 THEN JrnRaise(st)
                ELSE [st EXCEPT !.digit_ctr = st.digit_ctr + 1,
                                !.cents = st.cents * 10 + DigitValue(char)]
           ELSE IF char = "," /\ st.digit_ctr = CentsDigits
                THEN [st EXCEPT !.jamt = Amount(st.sign_flag, st.dollars, st.cents),
                                !.parse_state = "START_TYPE"]
           ELSE JrnReturn(st, JrnErr("Error, invalid amount in journal file"))
      [] st.parse_state = "START_TYPE" ->
           IF char = SP THEN st
           ELSE IF char \notin {",", NL}
                THEN [st EXCEPT !.type_start = idx, !.parse_state = "END_TYPE"]
           ELSE JrnReturn(st, JrnErr("Error, invalid transaction type in journal file"))
      [] st.parse_state = "END_TYPE" ->
           IF char = ","
           THEN [st EXCEPT !.jtype = rstrip(Slice(journal_file_line, st.type_start, idx)),
                           !.parse_state = "START_CAT"]
           ELSE st
      [] st.parse_state = "START_CAT" ->
           IF char = SP THEN st
           ELSE IF IsDigit(char)
                THEN [st EXCEPT !.cat_start = idx, !.parse_state = "END_CAT"]
           ELSE JrnReturn(st, JrnErr("Error, invalid category code in journal file"))
      [] OTHER ->  \* END_CAT
           IF IsDigit(char) \/ char = "." THEN st
           ELSE IF char \in {SP, NL}
                THEN JrnReturn(st, JrnRet(NoError, st.jdate, st.jdescr, st.jamt, st.jtype,
                                          Slice(journal_file_line, st.cat_start, idx)))
           ELSE JrnReturn(st, JrnErr("Error, invalid category code in journal file"))

\* JrnLoop with the end of the line closing the category code
RECURSIVE JrnLoopClosesCategory(_, _, _, _)
JrnLoopClosesCategory(st, journal_file_line, journal_year, idx) ==
    IF idx >= Len(journal_file_line)
    THEN IF st.parse_state = "START" THEN JrnSkip
         ELSE IF st.parse_state = "END_CAT"
              THEN JrnRet(NoError, st.jdate, st.jdescr, st.jamt, st.jtype,
                          Slice(journal_file_line, st.cat_start, idx))
         ELSE JrnErr("Error, invalid journal file format")
    ELSE LET nxt == JrnChar(st, journal_file_line, journal_year, idx,
                            journal_file_line[idx + 1])
         IN  IF nxt.returned THEN nxt.ret
             ELSE JrnLoopClosesCategory(nxt, journal_file_line, journal_year, idx + 1)

\* The for loop from index idx on, and what follows it when the line runs out.
RECURSIVE JrnLoop(_, _, _, _)
JrnLoop(st, journal_file_line, journal_year, idx) ==
    IF idx >= Len(journal_file_line)
    THEN IF st.parse_state = "START" THEN JrnSkip
         ELSE JrnErr("Error, invalid journal file format")
    ELSE LET nxt == JrnChar(st, journal_file_line, journal_year, idx,
                            journal_file_line[idx + 1])
         IN  IF nxt.returned THEN nxt.ret
             ELSE JrnLoop(nxt, journal_file_line, journal_year, idx + 1)

parse_journal_file_line(journal_file_line, journal_year) ==
    JrnLoop(JrnStart, journal_file_line, journal_year, 0)

-----------------------------------------------------------------------------
(* modstat.py: count_lines *)

FF == "\f"
BACKSLASH == "\\"
QUOTES == {"\"", "'"}

\* Parsing states for the line-counting function
PS_START == 0
PS_COMMENT == 1
PS_EXECUTABLE == 2
PS_EXEC_COMMENT == 3
PS_START_STRING == 4
PS_EXEC_STRING == 5
PS_END_STRING == 6

\* The locals of count_lines before the loop; quote_char, quote_count and
\* escape_active have no value until the first quote gives them one.
CountStart ==
    [parse_state |-> PS_START, quote_char |-> "", quote_count |-> 0, escape_active |-> FALSE,
     blank_lines |-> 0, comment_lines |-> 0, executable_lines |-> 0]

\* A quote starts a string: the same assignments in PS_START and PS_EXECUTABLE.
StartString(st, char) ==
    [st EXCEPT !.quote_char = char, !.quote_count = 1, !.escape_active = FALSE,
               !.parse_state = PS_START_STRING]

\* The end of an executable line
EndExecutable(st) ==
    [st EXCEPT !.executable_lines = @ + 1, !.parse_state = PS_START]

\* One iteration of the for loop of count_lines: the character char.
CountChar(st, char) ==
    CASE st.parse_state = PS_START ->
           IF char \in {SP, TAB, FF} THEN st
           ELSE IF char = NL THEN [st EXCEPT !.blank_lines = @ + 1]
           ELSE IF char = "#" THEN [st EXCEPT !.parse_state = PS_COMMENT]
           ELSE IF char \in QUOTES THEN StartString(st, char)
           ELSE [st EXCEPT !.parse_state = PS_EXECUTABLE]
      [] st.parse_state = PS_COMMENT ->
           IF char = NL
           THEN [st EXCEPT !.comment_lines = @ + 1, !.parse_state = PS_START]
           ELSE st
      [] st.parse_state = PS_EXECUTABLE ->
           IF char = NL THEN EndExecutable(st)
           ELSE IF char \in QUOTES THEN StartString(st, char)
           ELSE IF char = "#" THEN [st EXCEPT !.parse_state = PS_EXEC_COMMENT]
           ELSE st
      [] st.parse_state = PS_EXEC_COMMENT ->
           IF char = NL THEN EndExecutable(st) ELSE st
      [] st.parse_state = PS_START_STRING ->
           IF char = st.quote_char
           THEN IF st.quote_count + 1 = 3
                THEN [st EXCEPT !.quote_count = 3, !.parse_state = PS_EXEC_STRING]
                ELSE [st EXCEPT !.quote_count = @ + 1]
           ELSE IF st.quote_count = 2
           THEN IF char = NL THEN EndExecutable(st)
                ELSE IF char = "#" THEN [st EXCEPT !.parse_state = PS_EXEC_COMMENT]
                ELSE [st EXCEPT !.parse_state = PS_EXECUTABLE]
           ELSE [st EXCEPT !.escape_active = IF char = BACKSLASH THEN TRUE ELSE @,
                           !.parse_state = PS_EXEC_STRING]
      [] st.parse_state = PS_EXEC_STRING ->
           IF st.escape_active /\ (char = st.quote_char \/ char = BACKSLASH)
           THEN [st EXCEPT !.escape_active = FALSE]
           ELSE LET escape == IF char = BACKSLASH THEN TRUE ELSE FALSE
                    \* escape_active is False here: it was, or it has been reset
                    now == [st EXCEPT !.escape_active = escape]
                IN  IF char = NL THEN [now EXCEPT !.executable_lines = @ + 1]
                    ELSE IF char = st.quote_char
                    THEN IF st.quote_count - 1 = 0
                         THEN [now EXCEPT !.quote_count = 0, !.parse_state = PS_EXECUTABLE]
                         ELSE [now EXCEPT !.quote_count = @ - 1, !.parse_state = PS_END_STRING]
                    ELSE now
      [] OTHER ->  \* PS_END_STRING
           IF char = st.quote_char
           THEN IF st.quote_count - 1 = 0
                THEN [st EXCEPT !.quote_count = 0, !.parse_state = PS_EXECUTABLE]
                ELSE [st EXCEPT !.quote_count = @ - 1]
           ELSE [st EXCEPT !.escape_active = IF char = BACKSLASH THEN TRUE ELSE @,
                           !.executable_lines = IF char = NL THEN @ + 1 ELSE @,
                           !.quote_count = 3,
                           !.parse_state = PS_EXEC_STRING]

\* The for loop over the characters of text, from the locals st on.
RECURSIVE CountLoop(_, _)
CountLoop(st, text) ==
    IF text = <<>> THEN st ELSE CountLoop(CountChar(st, Head(text)), Tail(text))

\* count_lines(text): the 3-tuple it returns
count_lines(text) ==
    LET st == CountLoop(CountStart, text)
    IN  <<st.blank_lines, st.comment_lines, st.executable_lines>>

\* modstat.py has not run: its globals as the module sets them.
ModstatIdle ==
    /\ source = <<>>
    /\ cl = CountStart
    /\ docstring_lines = 0
    /\ total_blank_lines = 0
    /\ total_comment_lines = 0
    /\ total_executable_lines = 0
    /\ total_docstring_lines = 0
    /\ file_count = 0
    /\ printed = <<>>
    /\ import_names = <<>>
    /\ from_import_names = <<>>

-----------------------------------------------------------------------------
(* The globals, and the objects they hold *)

Months == 0 .. 11

\* parent of a CatCode object that has none (None in the source)
NoParent == -1

\* CatCode.__init__
CatCode(cat_code, descr, comment, level, line_num) ==
    [cat_str |-> cat_code, descr |-> descr, comment |-> comment, level |-> level,
     line_nbr |-> line_num, parent |-> NoParent, children |-> <<>>,
     total |-> 0, nested_total |-> 0,
     monthly |-> [m \in Months |-> 0], nested_monthly |-> [m \in Months |-> 0],
     journal |-> <<>>, longest |-> 0]

\* Journal.__init__
Journal(date, descr, amt, type, cat_code, cat_idx, line_num) ==
    [date |-> date, descr |-> descr, amt |-> amt, type |-> type,
     cat_code |-> cat_code, cat_idx |-> cat_idx, line_nbr |-> line_num]

\* cat_list[i] and journal_list[i] of the source
Cat(i) == cat_list[i + 1]
Jrn(i) == journal_list[i + 1]

\* range(len(cat_list))
CatIndices == 0 .. Len(cat_list) - 1

\* Failure with the lines counted from 0, as enumerate(file) without its start.
FailureFromZero(msg, line_num, cat_code) ==
    [msg |-> msg, line_nbr |-> IF line_num > 0 THEN line_num - 1 ELSE 0, cat_code |-> cat_code]

\* What the program prints before it exits with status 1: the message, the
\* line number it names (0 when it names none) and the category code it names.
Failure(msg, line_num, cat_code) == [msg |-> msg, line_nbr |-> line_num, cat_code |-> cat_code]
NoFailure == Failure(NoError, 0, None)

\* The levels the outer loop of the aggregation visits: range(4, 1, -1)
FirstFoldLevel == 4
\* LowestFoldLevel of range(4, 2, -1): level 2 is never folded
LowestFoldLevelThree == FirstFoldLevel - 1
LowestFoldLevel == 2

\* InRegistry with the test left out: no code is ever found.
NeverRegistered(cat_code) == FALSE

\* cat_code in cat_dict
InRegistry(cat_code) == cat_code \in DOMAIN cat_dict

\* s.rfind(ch): the highest index of ch in s, -1 when there is none.
RECURSIVE rfind(_, _)
rfind(s, ch) ==
    IF s = <<>> THEN -1
    ELSE IF s[Len(s)] = ch THEN Len(s) - 1
    ELSE rfind(SubSeq(s, 1, Len(s) - 1), ch)

\* int(text) of a text of decimal digits
RECURSIVE IntOf(_)
IntOf(text) ==
    IF text = <<>> THEN 0
    ELSE IntOf(SubSeq(text, 1, Len(text) - 1)) * 10 + DigitValue(text[Len(text)])

-----------------------------------------------------------------------------
(* The input files *)

\* Lines read from the category file and from the journal file.
MaxCatLines == 4
MaxJournalLines == 2

\* The lines a category file is made of; one without newline can only be the last.
CatFileLines ==
    { <<"1", SP, "A", NL>>,
      <<"1", ".", "1", SP, "B", NL>>,
      <<"1", ".", "1", ".", "1", SP, "C", NL>>,
      <<"1", ".", "1", ".", "1", ".", "1", SP, "D", NL>>,
      <<"1", ".", "2", SP, "E", SP, "#", "c", NL>>,
      <<"2", SP, "F", NL>>,
      <<SP, "#", SP, "x", NL>>,
      <<"1", ".", "3", NL>>,
      <<SP, SP>> }

\* The lines a journal file is made of.
JournalFileLines ==
    { <<"3", "/", "9", ",", SP, "P", ",", SP, "1", "0", ".", "0", "0", ",", SP, "d", ",", SP, "1", ".", "1", NL>>,
      <<"3", "/", "9", ",", SP, "R", "e", "n", "t", ",", SP, "-", "1", "0", ".", "0", "0", ",", SP, "c", ",", SP, "1", ".", "1", NL>>,
      <<"1", "/", "2", ",", SP, "Q", ",", SP, "0", ".", "2", "5", ",", SP, "x", ",", SP, "1", ".", "1", ".", "1", ".", "1", NL>>,
      <<"1", "2", "/", "3", "1", ",", SP, "R", ",", SP, "1", ".", "0", "0", ",", SP, "x", ",", SP, "2", SP, NL>>,
      <<"4", "/", "1", ",", SP, "S", ",", SP, "2", ".", "5", "0", ",", SP, "x", ",", SP, "9", ".", "9", NL>>,
      <<"#", SP, "c", NL>>,
      <<"3", "/", "9", ",", SP, "P", ",", SP, "1", "0", ".", "0", "0", ",", SP, "d", ",", SP, "1", ".", "1">> }

\* The lines of the example files: four categories and two transactions.
ExampleCatLines ==
    { <<"1", SP, "I", "n", "c", "o", "m", "e", NL>>,
      <<"1", ".", "1", SP, "S", "a", "l", "a", "r", "y", NL>>,
      <<"2", SP, "E", "x", "p", "e", "n", "s", "e", "s", NL>>,
      <<"2", ".", "1", SP, "H", "o", "u", "s", "i", "n", "g", NL>> }

ExampleJournalLines ==
    { <<"3", "/", "9", ",", SP, "P", "a", "y", "c", "h", "e", "c", "k", ",", SP, "1", "0", "0", "0", ".", "0", "0", ",", SP, "d", "e", "p", ",", SP, "1", ".", "1", NL>>,
      <<"3", "/", "1", "0", ",", SP, "R", "e", "n", "t", ",", SP, "8", "0", "0", ".", "0", "0", ",", SP, "c", "h", "k", ",", SP, "2", ".", "1", NL>> }

\* Transactions of one category out of date order, two of them of one date,
\* and one of another category.
SortJournalLines ==
    { <<"3", "/", "1", "0", ",", SP, "A", ",", SP, "1", ".", "0", "0", ",", SP, "t", ",", SP, "1", ".", "1", NL>>,
      <<"3", "/", "9", ",", SP, "B", ",", SP, "2", ".", "0", "0", ",", SP, "t", ",", SP, "1", ".", "1", NL>>,
      <<"3", "/", "9", ",", SP, "C", ",", SP, "3", ".", "0", "0", ",", SP, "t", ",", SP, "1", ".", "1", NL>>,
      <<"1", "2", "/", "1", ",", SP, "D", ",", SP, "4", ".", "0", "0", ",", SP, "t", ",", SP, "1", ".", "1", NL>>,
      <<"2", "/", "2", "8", ",", SP, "E", ",", SP, "5", ".", "0", "0", ",", SP, "t", ",", SP, "2", ".", "1", NL>> }

\* The file iterator yields a further line only after a line that ended in a newline.
MoreLines == IF line = <<>> THEN TRUE ELSE line[Len(line)] = NL

\* The processing year of the run.
WorkingYears == {2015}

\* parse_cat_file_line and parse_journal_file_line of every line a file can
\* hold, evaluated once.
CatFileParsed ==
    [cat_line \in CatFileLines \cup ExampleCatLines |-> parse_cat_file_line(cat_line)]
JournalFileParsed ==
    [journal_line \in JournalFileLines \cup ExampleJournalLines \cup SortJournalLines,
     year \in WorkingYears |->
        parse_journal_file_line(journal_line, year)]

-----------------------------------------------------------------------------
(* main: read_and_parse_cat_file *)

\* ReadCatLine with the index of a node taken from its line in the file.
ReadCatLineIndexByLine(cat_line) ==
    /\ pc = "cat"
    /\ MoreLines
    /\ line_nbr < MaxCatLines
    /\ LET r == CatFileParsed[cat_line]
           n == line_nbr + 1
       IN  /\ line' = cat_line
           /\ res' = r
           /\ line_nbr' = n
           /\ IF r.error_msg # NoError
              THEN /\ error' = Failure(r.error_msg, n, None)
                   /\ pc' = "exit"
                   /\ UNCHANGED <<cat_list, cat_dict, cidx>>
              ELSE IF r.cat_code # <<>>
              THEN IF InRegistry(r.cat_code)
                   THEN /\ error' = Failure("Error, duplicate category code found", n, None)
                        /\ pc' = "exit"
                        /\ UNCHANGED <<cat_list, cat_dict, cidx>>
                   ELSE /\ cat_dict' = (r.cat_code :> line_nbr) @@ cat_dict
                        /\ cat_list' = Append(cat_list,
                                              CatCode(r.cat_code, r.descr, r.comment, r.level, n))
                        /\ cidx' = cidx + 1
                        /\ UNCHANGED <<error, pc>>
              ELSE UNCHANGED <<cat_list, cat_dict, cidx, error, pc>>
    /\ UNCHANGED <<journal_list, lvl, working_year, modstat_vars, todo, months>>

\* One iteration of the loop over the category file: the line cat_line.
ReadCatLine(cat_line) ==
    /\ pc = "cat"
    /\ MoreLines
    /\ line_nbr < MaxCatLines
    /\ LET r == CatFileParsed[cat_line]
           n == line_nbr + 1
       IN  /\ line' = cat_line
           /\ res' = r
           /\ line_nbr' = n
           /\ IF r.error_msg # NoError
              THEN /\ error' = Failure(r.error_msg, n, None)
                   /\ pc' = "exit"
                   /\ UNCHANGED <<cat_list, cat_dict, cidx>>
              ELSE IF r.cat_code # <<>>
              THEN IF InRegistry(r.cat_code)
                   THEN /\ error' = Failure("Error, duplicate category code found", n, None)
                        /\ pc' = "exit"
                        /\ UNCHANGED <<cat_list, cat_dict, cidx>>
                   ELSE /\ cat_dict' = (r.cat_code :> cidx) @@ cat_dict
                        /\ cat_list' = Append(cat_list,
                                              CatCode(r.cat_code, r.descr, r.comment, r.level, n))
                        /\ cidx' = cidx + 1
                        /\ UNCHANGED <<error, pc>>
              ELSE UNCHANGED <<cat_list, cat_dict, cidx, error, pc>>
    /\ UNCHANGED <<journal_list, lvl, working_year, modstat_vars, todo, months>>

\* EndCatFile in a main that does not call prc_cat_file_hierarchy: the journal
\* file is read next.
EndCatFileSkipsHierarchy ==
    /\ pc = "cat"
    /\ IF Len(cat_list) = 0
       THEN /\ error' = Failure("Error, empty category file", 0, None)
            /\ pc' = "exit"
            /\ UNCHANGED cidx
       ELSE /\ pc' = "journal"
            /\ cidx' = 0
            /\ UNCHANGED error
    /\ UNCHANGED <<cat_list, cat_dict, journal_list, line_nbr, lvl, line, res, working_year, modstat_vars, todo, months>>

\* The category file is at its end: the check for an empty file, the return,
\* and the start of prc_cat_file_hierarchy.
EndCatFile ==
    /\ pc = "cat"
    /\ IF Len(cat_list) = 0
       THEN /\ error' = Failure("Error, empty category file", 0, None)
            /\ pc' = "exit"
            /\ UNCHANGED cidx
       ELSE /\ pc' = "hier"
            /\ cidx' = 0
            /\ UNCHANGED error
    /\ UNCHANGED <<cat_list, cat_dict, journal_list, line_nbr, lvl, line, res, working_year, modstat_vars, todo, months>>

-----------------------------------------------------------------------------
(* main: prc_cat_file_hierarchy *)

\* ParentCode with find in place of rfind: all after the first "." is stripped.
ParentCodeFirstDot(full_code) == Slice(full_code, 0, 1)

\* parent_code: full_code with its last ".xx" stripped
ParentCode(full_code) == Slice(full_code, 0, rfind(full_code, "."))

\* HierStep without its sys.exit(1): the error is printed and the loop goes on.
HierStepNoExit ==
    /\ pc = "hier"
    /\ cidx < Len(cat_list)
    /\ IF Cat(cidx).level > 1
       THEN LET full_code == Cat(cidx).cat_str
                parent_code == ParentCode(full_code)
            IN  IF ~InRegistry(parent_code)
                THEN /\ error' = Failure("Error, parent category missing or appears after child category",
                                         0, full_code)
                     /\ cidx' = cidx + 1
                     /\ UNCHANGED <<cat_list, pc>>
                ELSE LET parent_idx == cat_dict[parent_code]
                         linked == [cat_list EXCEPT
                                      ![parent_idx + 1].children = Append(@, cidx)]
                     IN  /\ cat_list' = [linked EXCEPT ![cidx + 1].parent = parent_idx]
                         /\ cidx' = cidx + 1
                         /\ UNCHANGED <<error, pc>>
       ELSE /\ cidx' = cidx + 1
            /\ UNCHANGED <<cat_list, error, pc>>
    /\ UNCHANGED <<cat_dict, journal_list, line_nbr, lvl, line, res, working_year, modstat_vars, todo, months>>

\* HierStep with the child put at the front of its parent's children.
HierStepPrepends ==
    /\ pc = "hier"
    /\ cidx < Len(cat_list)
    /\ IF Cat(cidx).level > 1
       THEN LET full_code == Cat(cidx).cat_str
                parent_code == ParentCode(full_code)
            IN  IF ~InRegistry(parent_code)
                THEN /\ error' = Failure("Error, parent category missing or appears after child category",
                                         0, full_code)
                     /\ pc' = "exit"
                     /\ UNCHANGED <<cat_list, cidx>>
                ELSE LET parent_idx == cat_dict[parent_code]
                         linked == [cat_list EXCEPT
                                      ![parent_idx + 1].children = <<cidx>> \o @]
                     IN  /\ cat_list' = [linked EXCEPT ![cidx + 1].parent = parent_idx]
                         /\ cidx' = cidx + 1
                         /\ UNCHANGED <<error, pc>>
       ELSE /\ cidx' = cidx + 1
            /\ UNCHANGED <<cat_list, error, pc>>
    /\ UNCHANGED <<cat_dict, journal_list, line_nbr, lvl, line, res, working_year, modstat_vars, todo, months>>

\* One iteration of the loop over cat_list: the node at index cidx.
HierStep ==
    /\ pc = "hier"
    /\ cidx < Len(cat_list)
    /\ IF Cat(cidx).level > 1
       THEN LET full_code == Cat(cidx).cat_str
                parent_code == ParentCode(full_code)
            IN  IF ~InRegistry(parent_code)
                THEN /\ error' = Failure("Error, parent category missing or appears after child category",
                                         0, full_code)
                     /\ pc' = "exit"
                     /\ UNCHANGED <<cat_list, cidx>>
                ELSE LET parent_idx == cat_dict[parent_code]
                         linked == [cat_list EXCEPT
                                      ![parent_idx + 1].children = Append(@, cidx)]
                     IN  /\ cat_list' = [linked EXCEPT ![cidx + 1].parent = parent_idx]
                         /\ cidx' = cidx + 1
                         /\ UNCHANGED <<error, pc>>
       ELSE /\ cidx' = cidx + 1
            /\ UNCHANGED <<cat_list, error, pc>>
    /\ UNCHANGED <<cat_dict, journal_list, line_nbr, lvl, line, res, working_year, modstat_vars, todo, months>>

\* The loop is over: the return, and the start of read_and_parse_journal_file.
HierDone ==
    /\ pc = "hier"
    /\ cidx = Len(cat_list)
    /\ pc' = "journal"
    /\ cidx' = 0
    /\ line_nbr' = 0
    /\ line' = <<>>
    /\ UNCHANGED <<cat_list, cat_dict, journal_list, lvl, error, res, working_year, modstat_vars, todo, months>>

-----------------------------------------------------------------------------
(* main: read_and_parse_journal_file *)

\* Post that files the transaction under its line number, not its index.
PostByLineNumber(cats, cat_idx, jidx, jobj) ==
    LET mon_idx == IntOf(Slice(jobj.date, 0, 2)) - 1
    IN  [cats EXCEPT
           ![cat_idx + 1].journal = Append(@, jobj.line_nbr),
           ![cat_idx + 1].total = @ + jobj.amt,
           ![cat_idx + 1].monthly[mon_idx] = @ + jobj.amt,
           ![cat_idx + 1].longest = IF Len(jobj.descr) > @ THEN Len(jobj.descr) ELSE @]

\* Post with the month 01 - 12 itself as the index (of 12 months, so 12 is 0).
PostMonthFromOne(cats, cat_idx, jidx, jobj) ==
    LET mon_idx == IntOf(Slice(jobj.date, 0, 2)) % 12
    IN  [cats EXCEPT
           ![cat_idx + 1].journal = Append(@, jidx),
           ![cat_idx + 1].total = @ + jobj.amt,
           ![cat_idx + 1].monthly[mon_idx] = @ + jobj.amt,
           ![cat_idx + 1].longest = IF Len(jobj.descr) > @ THEN Len(jobj.descr) ELSE @]

\* Post that adds the amount to the nested total as well.
PostAlsoNested(cats, cat_idx, jidx, jobj) ==
    LET mon_idx == IntOf(Slice(jobj.date, 0, 2)) - 1
    IN  [cats EXCEPT
           ![cat_idx + 1].journal = Append(@, jidx),
           ![cat_idx + 1].total = @ + jobj.amt,
           ![cat_idx + 1].nested_total = @ + jobj.amt,
           ![cat_idx + 1].monthly[mon_idx] = @ + jobj.amt,
           ![cat_idx + 1].longest = IF Len(jobj.descr) > @ THEN Len(jobj.descr) ELSE @]

\* The transaction at journal_list index jidx is put into category cat_idx.
Post(cats, cat_idx, jidx, jobj) ==
    LET mon_idx == IntOf(Slice(jobj.date, 0, 2)) - 1
    IN  [cats EXCEPT
           ![cat_idx + 1].journal = Append(@, jidx),
           ![cat_idx + 1].total = @ + jobj.amt,
           ![cat_idx + 1].monthly[mon_idx] = @ + jobj.amt,
           ![cat_idx + 1].longest = IF Len(jobj.descr) > @ THEN Len(jobj.descr) ELSE @]

\* One iteration of the loop over the journal file: the line journal_line.
ReadJournalLine(journal_line) ==
    /\ pc = "journal"
    /\ MoreLines
    /\ line_nbr < MaxJournalLines
    /\ LET r == JournalFileParsed[journal_line, working_year]
           n == line_nbr + 1
       IN  /\ line' = journal_line
           /\ res' = r
           /\ line_nbr' = n
           /\ IF r.error_msg = ValueError
              THEN \* uncaught: a traceback, no message of the program's own
                   /\ error' = Failure(ValueError, 0, None)
                   /\ pc' = "exit"
                   /\ UNCHANGED <<cat_list, journal_list, cidx>>
              ELSE IF r.error_msg # NoError
              THEN /\ error' = Failure(r.error_msg, n, None)
                   /\ pc' = "exit"
                   /\ UNCHANGED <<cat_list, journal_list, cidx>>
              ELSE IF r.jcat_code # <<>>
              THEN IF ~InRegistry(r.jcat_code)
                   THEN /\ error' = Failure("Error, undefined category code found", n, None)
                        /\ pc' = "exit"
                        /\ UNCHANGED <<cat_list, journal_list, cidx>>
                   ELSE LET cat_idx == cat_dict[r.jcat_code]
                            journal_obj == Journal(r.jdate, r.jdescr, r.jamt, r.jtype,
                                                   r.jcat_code, cat_idx, n)
                        IN  /\ journal_list' = Append(journal_list, journal_obj)
                            /\ cat_list' = Post(cat_list, cat_idx, cidx, journal_obj)
                            /\ cidx' = cidx + 1
                            /\ UNCHANGED <<error, pc>>
              ELSE UNCHANGED <<cat_list, journal_list, cidx, error, pc>>
    /\ UNCHANGED <<cat_dict, lvl, working_year, modstat_vars, todo, months>>

\* EndJournalFile without the check for an empty file.
EndJournalFileNoCheck ==
    /\ pc = "journal"
    /\ pc' = "agg"
    /\ lvl' = FirstFoldLevel
    /\ cidx' = 0
    /\ UNCHANGED <<cat_list, cat_dict, journal_list, line_nbr, error, line, res, working_year, modstat_vars, todo, months>>

\* The journal file is at its end: the check for an empty file, the return,
\* and the start of the aggregation loops of generate_cashflow_report.
EndJournalFile ==
    /\ pc = "journal"
    /\ IF Len(journal_list) = 0
       THEN /\ error' = Failure("Error, empty journal file", 0, None)
            /\ pc' = "exit"
            /\ UNCHANGED <<lvl, cidx>>
       ELSE /\ pc' = "agg"
            /\ lvl' = FirstFoldLevel
            /\ cidx' = 0
            /\ UNCHANGED error
    /\ UNCHANGED <<cat_list, cat_dict, journal_list, line_nbr, line, res, working_year, modstat_vars, todo, months>>

-----------------------------------------------------------------------------
(* main: generate_cashflow_report, the aggregation *)

\* Fold that adds the child's direct totals a second time.
FoldTwice(cats, cidx_) ==
    LET pidx == cats[cidx_ + 1].parent
        child == cats[cidx_ + 1]
    IN  [cats EXCEPT
           ![pidx + 1].nested_total = @ + (child.total + child.nested_total) + child.total,
           ![pidx + 1].nested_monthly =
               [mon_idx \in Months |->
                   @[mon_idx] + (child.monthly[mon_idx] + child.nested_monthly[mon_idx])
                      + child.monthly[mon_idx]]]

\* Fold without the child's nested totals: only its direct totals go up.
FoldDirectOnly(cats, cidx_) ==
    LET pidx == cats[cidx_ + 1].parent
        child == cats[cidx_ + 1]
    IN  [cats EXCEPT
           ![pidx + 1].nested_total = @ + child.total,
           ![pidx + 1].nested_monthly =
               [mon_idx \in Months |-> @[mon_idx] + child.monthly[mon_idx]]]

\* The body of the two loops for the node at cidx_: its totals go to its parent.
Fold(cats, cidx_) ==
    LET pidx == cats[cidx_ + 1].parent
        child == cats[cidx_ + 1]
    IN  [cats EXCEPT
           ![pidx + 1].nested_total = @ + (child.total + child.nested_total),
           ![pidx + 1].nested_monthly =
               [mon_idx \in Months |-> @[mon_idx] + (child.monthly[mon_idx] + child.nested_monthly[mon_idx])]]

\* NextFold with loops that go down two levels at a time.
RECURSIVE NextFoldSkipsLevel(_, _)
NextFoldSkipsLevel(lvl_, cidx_) ==
    IF lvl_ < LowestFoldLevel THEN [lvl |-> lvl_, cidx |-> 0]
    ELSE IF cidx_ >= Len(cat_list) THEN NextFoldSkipsLevel(lvl_ - 2, 0)
    ELSE IF Cat(cidx_).level = lvl_ THEN [lvl |-> lvl_, cidx |-> cidx_]
    ELSE NextFoldSkipsLevel(lvl_, cidx_ + 1)

\* The two loops run on from (lvl_, cidx_) over the nodes whose level is not
\* the loop's: where they next find a node of level lvl_, or lvl_ below
\* LowestFoldLevel when they end without finding one.
RECURSIVE NextFold(_, _)
NextFold(lvl_, cidx_) ==
    IF lvl_ < LowestFoldLevel THEN [lvl |-> lvl_, cidx |-> 0]
    ELSE IF cidx_ >= Len(cat_list) THEN NextFold(lvl_ - 1, 0)
    ELSE IF Cat(cidx_).level = lvl_ THEN [lvl |-> lvl_, cidx |-> cidx_]
    ELSE NextFold(lvl_, cidx_ + 1)

\* The loops run to the next node whose level is lvl and fold it into its
\* parent; when there is none left the aggregation is over.
AggStep ==
    /\ pc = "agg"
    /\ LET at == NextFold(lvl, cidx)
       IN  IF at.lvl < LowestFoldLevel
           THEN /\ pc' = "report"
                /\ lvl' = at.lvl
                /\ cidx' = at.cidx
                /\ UNCHANGED cat_list
           ELSE /\ cat_list' = Fold(cat_list, at.cidx)
                /\ lvl' = at.lvl
                /\ cidx' = at.cidx + 1
                /\ UNCHANGED pc
    /\ UNCHANGED <<cat_dict, journal_list, line_nbr, error, line, res, working_year, modstat_vars, todo, months>>

-----------------------------------------------------------------------------
(* main: generate_cashflow_report, the report *)

\* The lower case letters, in the order of their codes from 97 on
LowerCase ==
    <<"a", "b", "c", "d", "e", "f", "g", "h", "i", "j", "k", "l", "m",
      "n", "o", "p", "q", "r", "s", "t", "u", "v", "w", "x", "y", "z">>

\* ord(char) of the characters of a date and of the name of a module
Ord(char) ==
    IF char = "/" THEN 47
    ELSE IF char = SP THEN 32
    ELSE IF char = "." THEN 46
    ELSE IF \E k \in 1 .. Len(LowerCase) : LowerCase[k] = char
    THEN 96 + (CHOOSE k \in 1 .. Len(LowerCase) : LowerCase[k] = char)
    ELSE 48 + DigitValue(char)

\* a < b of two str, character by character
RECURSIVE TextLess(_, _)
TextLess(a, b) ==
    IF b = <<>> THEN FALSE
    ELSE IF a = <<>> THEN TRUE
    ELSE IF Ord(a[1]) # Ord(b[1]) THEN Ord(a[1]) < Ord(b[1])
    ELSE TextLess(Tail(a), Tail(b))

\* The sort key of the journal_list index obj
DateKey(obj) == Jrn(obj).date

\* A sort that is not stable: an index goes before those of an equal key.
RECURSIVE SortByDateUnstable(_)
SortByDateUnstable(list) ==
    IF list = <<>> THEN <<>>
    ELSE LET front == SortByDateUnstable(SubSeq(list, 1, Len(list) - 1))
             obj == list[Len(list)]
             keep == Cardinality({k \in 1 .. Len(front) : TextLess(DateKey(front[k]), DateKey(obj))})
         IN  SubSeq(front, 1, keep) \o <<obj>> \o SubSeq(front, keep + 1, Len(front))

\* list.sort(key = ...): the indices of list by their keys, those of equal
\* keys in the order list has them.
RECURSIVE SortByDate(_)
SortByDate(list) ==
    IF list = <<>> THEN <<>>
    ELSE LET front == SortByDate(SubSeq(list, 1, Len(list) - 1))
             obj == list[Len(list)]
             keep == Cardinality({k \in 1 .. Len(front) : ~TextLess(DateKey(obj), DateKey(front[k]))})
         IN  SubSeq(front, 1, keep) \o <<obj>> \o SubSeq(front, keep + 1, Len(front))

\* Activity by the nested figures alone
ActivityNestedOnly(cats, month) ==
    \E i \in 1 .. Len(cats) : cats[i].nested_monthly[month] # 0

\* Is there activity in the month: some category's monthly + nested_monthly is not 0.
Activity(cats, month) ==
    \E i \in 1 .. Len(cats) : cats[i].monthly[month] + cats[i].nested_monthly[month] # 0

\* Count that finds no month
CountNone(flags) == 0

\* sum(todo)
Count(flags) == Cardinality({month \in Months : flags[month]})

\* The monthly averages divide by months_ for every category whose total
\* and nested total do not come to 0: is one of them a division by 0
DividesByZero(cats, months_) ==
    months_ = 0 /\ \E i \in 1 .. Len(cats) : cats[i].total + cats[i].nested_total # 0

\* The rest of generate_cashflow_report: the detailed portion sorts every
\* category's transactions in place, the summaries find the months to print
\* and the number of them, and the averages divide by that number; what is
\* printed changes no state.
ReportStep ==
    /\ pc = "report"
    /\ cat_list' = [i \in 1 .. Len(cat_list) |->
                       [cat_list[i] EXCEPT !.journal = SortByDate(cat_list[i].journal)]]
    /\ todo' = [month \in Months |-> Activity(cat_list, month)]
    /\ months' = Count([month \in Months |-> Activity(cat_list, month)])
    /\ IF DividesByZero(cat_list, Count([month \in Months |-> Activity(cat_list, month)]))
       THEN \* uncaught: a traceback, no message of the program's own
            /\ error' = Failure(ZeroDivisionError, 0, None)
            /\ pc' = "exit"
       ELSE /\ pc' = "done"
            /\ UNCHANGED error
    /\ UNCHANGED <<cat_dict, journal_list, line_nbr, lvl, cidx, line, res, working_year, modstat_vars>>

-----------------------------------------------------------------------------
(* The program *)

Init ==
    /\ pc = "cat"
    /\ cat_list = <<>>
    /\ cat_dict = <<>>
    /\ journal_list = <<>>
    /\ line_nbr = 0
    /\ lvl = 0
    /\ cidx = 0
    /\ error = NoFailure
    /\ todo = [month \in Months |-> FALSE]
    /\ months = 0
    /\ line = <<>>
    /\ res = CatSkip
    /\ working_year \in WorkingYears
    /\ ModstatIdle

Next ==
    \/ \E cat_line \in CatFileLines : ReadCatLine(cat_line)
    \/ EndCatFile
    \/ HierStep
    \/ HierDone
    \/ \E journal_line \in JournalFileLines : ReadJournalLine(journal_line)
    \/ EndJournalFile
    \/ AggStep
    \/ ReportStep

Spec == Init /\ [][Next]_vars

\* The program run on files made of the lines of the example, in any order.
NextExample ==
    \/ \E cat_line \in ExampleCatLines : ReadCatLine(cat_line)
    \/ EndCatFile
    \/ HierStep
    \/ HierDone
    \/ \E journal_line \in ExampleJournalLines : ReadJournalLine(journal_line)
    \/ EndJournalFile
    \/ AggStep
    \/ ReportStep

SpecExample == Init /\ [][NextExample]_vars

\* The program run on the categories of the example and a journal file made
\* of SortJournalLines, in any order.
NextSort ==
    \/ \E cat_line \in ExampleCatLines : ReadCatLine(cat_line)
    \/ EndCatFile
    \/ HierStep
    \/ HierDone
    \/ \E journal_line \in SortJournalLines : ReadJournalLine(journal_line)
    \/ EndJournalFile
    \/ AggStep
    \/ ReportStep

SpecSort == Init /\ [][NextSort]_vars

-----------------------------------------------------------------------------
(* The category parser on its own: every line of CatInputs is parsed *)

\* The texts of length 1 to n over the characters S
TextsUpTo(S, n) == UNION {[1 .. k -> S] : k \in 1 .. n}

\* Longest category code text over the characters of a well-formed code, and
\* longest over the wider alphabet ("x" is any character no state accepts).
MaxCodeLen == 9
MaxWideCodeLen == 4

CodeTexts(code_len, wide_len) ==
    TextsUpTo({"0", "1", "."}, code_len)
        \cup TextsUpTo({"0", "1", "9", ".", SUP2, "x"}, wide_len)

\* Longest text after the code over space, "#", newline, a letter and tab.
MaxTailLen == 4

\* A code text and a description; and a good code with every short tail.
CatInputs(code_len, wide_len, tail_len) ==
    { lead \o code \o <<SP, "A", NL>> :
        lead \in {<<>>, <<SP>>}, code \in CodeTexts(code_len, wide_len) }
        \cup { code \o tail : code \in {<<"1">>, <<"1", ".", "2">>},
                              tail \in TextsUpTo({SP, "#", NL, "A", TAB}, tail_len) }

CatInit ==
    /\ pc = "input"
    /\ line \in CatInputs(MaxCodeLen, MaxWideCodeLen, MaxTailLen)
    /\ res = CatSkip
    /\ cat_list = <<>>
    /\ cat_dict = <<>>
    /\ journal_list = <<>>
    /\ line_nbr = 0
    /\ lvl = 0
    /\ cidx = 0
    /\ error = NoFailure
    /\ todo = [month \in Months |-> FALSE]
    /\ months = 0
    /\ working_year \in WorkingYears
    /\ ModstatIdle

\* The call parse_cat_file_line(line)
ParseCatLine ==
    /\ pc = "input"
    /\ res' = parse_cat_file_line(line)
    /\ pc' = "parsed"
    /\ UNCHANGED <<cat_list, cat_dict, journal_list, line_nbr, lvl, cidx, error, line, working_year, modstat_vars, todo, months>>

SpecCat == CatInit /\ [][ParseCatLine]_vars

-----------------------------------------------------------------------------
(* The journal parser on its own: every line of JournalInputs is parsed *)

\* Months 0 .. MaxMonthIn and days 0 .. MaxDayIn are written, each with no
\* padding and padded with zeros to two and to three digits.
MaxMonthIn == 13
MaxDayIn == 32
NumberTexts(n) == {DecimalText(n), ZeroPad(DecimalText(n), 2), ZeroPad(DecimalText(n), 3)}

DateInputs ==
    { lead \o mt \o <<"/">> \o dt \o <<",", SP, "P", ",", SP, "1", ".", "0", "0", ",", SP, "t", ",", SP, "1", NL>> :
        lead \in {<<>>, <<SP>>},
        mt \in UNION {NumberTexts(m) : m \in 0 .. MaxMonthIn},
        dt \in UNION {NumberTexts(d) : d \in 0 .. MaxDayIn} }

\* Longest amount text, over sign, digits, point, SUP2 and "x" (any other character).
MaxAmountLen == 5

AmountInputs ==
    { <<"3", "/", "9", ",", SP, "P", ",", SP>> \o amt \o <<",", SP, "t", ",", SP, "1", ".", "1", NL>> :
        amt \in TextsUpTo({"-", "0", "7", ".", SUP2, "x"}, MaxAmountLen) }

\* Longest text after the category code, its newline included.
MaxTrailLen == 4

\* A good line up to its category code, and every short text after the
\* code: spaces, "#", a letter ("x" is any character a code cannot have),
\* ended by the only newline.
TrailInputs ==
    { <<"3", "/", "9", ",", SP, "P", ",", SP, "1", ".", "0", "0", ",", SP, "t", ",", SP, "1", ".", "1">>
          \o trail \o <<NL>> :
        trail \in {<<>>} \cup TextsUpTo({SP, "#", "x"}, MaxTrailLen - 1) }

JournalInputs == DateInputs \cup AmountInputs \cup TrailInputs \cup JournalFileLines

\* Years do_startup_activity lets through (1500 to 3000): a leap year, a
\* common year, a century that is a leap year and one that is not.
JournalYears == {1900, 2000, 2015, 2016}

JournalInit ==
    /\ pc = "input"
    /\ line \in JournalInputs
    /\ working_year \in JournalYears
    /\ ModstatIdle
    /\ res = JrnSkip
    /\ cat_list = <<>>
    /\ cat_dict = <<>>
    /\ journal_list = <<>>
    /\ line_nbr = 0
    /\ lvl = 0
    /\ cidx = 0
    /\ error = NoFailure
    /\ todo = [month \in Months |-> FALSE]
    /\ months = 0

\* The call parse_journal_file_line(line, journal_year)
ParseJournalLine ==
    /\ pc = "input"
    /\ res' = parse_journal_file_line(line, working_year)
    /\ pc' = "parsed"
    /\ UNCHANGED <<cat_list, cat_dict, journal_list, line_nbr, lvl, cidx, error, line, working_year, modstat_vars, todo, months>>

SpecJournal == JournalInit /\ [][ParseJournalLine]_vars

-----------------------------------------------------------------------------
(* Both parsers on short lines: blank lines, comments and what is neither *)

\* Longest line before its newline.
MaxLineLen == 4

\* What the file iterator can yield: a text without newline that is the
\* last line of its file, or a text ended by the only newline it has.
LineInputs ==
    LET texts == TextsUpTo({SP, TAB, "#", "1", "A"}, MaxLineLen)
    IN  texts \cup {text \o <<NL>> : text \in texts} \cup {<<NL>>}

LineInit ==
    /\ pc = "input"
    /\ line \in LineInputs
    /\ res = CatSkip
    /\ working_year \in WorkingYears
    /\ ModstatIdle
    /\ cat_list = <<>>
    /\ cat_dict = <<>>
    /\ journal_list = <<>>
    /\ line_nbr = 0
    /\ lvl = 0
    /\ cidx = 0
    /\ error = NoFailure
    /\ todo = [month \in Months |-> FALSE]
    /\ months = 0

SpecLine == LineInit /\ [][ParseCatLine \/ ParseJournalLine]_vars

-----------------------------------------------------------------------------
(* Both parsers on the last line of a file, with and without its newline *)

\* Longest text after the category code of a line, before its newline.
MaxEndLen == 3

\* A transaction line up to the last character of its category code
GoodJournal ==
    <<"3", "/", "9", ",", SP, "P", ",", SP, "1", ".", "0", "0", ",", SP, "t", ",", SP, "1", ".", "1">>

\* What the file iterator can yield for the last line: nothing or a category
\* code begun or whole, or a transaction up to its category code, each
\* followed by a short text, without a newline and with one.
LastLineInputs ==
    LET texts ==
            ({ code \o end : code \in {<<>>, <<"2">>, <<"2", ".">>, <<"2", ".", "1">>},
                             end \in {<<>>} \cup TextsUpTo({SP, "#", "A"}, MaxEndLen) }
                \cup { GoodJournal \o end :
                             end \in {<<>>} \cup TextsUpTo({SP, "#", "x"}, MaxEndLen) })
              \ {<<>>}
    IN  texts \cup {text \o <<NL>> : text \in texts}

LastLineInit ==
    /\ pc = "input"
    /\ line \in LastLineInputs
    /\ res = CatSkip
    /\ working_year \in WorkingYears
    /\ ModstatIdle
    /\ cat_list = <<>>
    /\ cat_dict = <<>>
    /\ journal_list = <<>>
    /\ line_nbr = 0
    /\ lvl = 0
    /\ cidx = 0
    /\ error = NoFailure
    /\ todo = [month \in Months |-> FALSE]
    /\ months = 0

SpecLastLine == LastLineInit /\ [][ParseCatLine \/ ParseJournalLine]_vars

-----------------------------------------------------------------------------
(* The amount field in float arithmetic: the states START_AMT, DOLLARS and *)
(* CENTS of parse_journal_file_line with dollars, cents and jamt as the    *)
(* doubles they are, and the "{0:.2f}" of the report                       *)

\* The locals the three states use, on entry to START_AMT.
AmtStart ==
    [parse_state |-> "START_AMT", sign_flag |-> FALSE, digit_ctr |-> 0,
     dollars |-> <<>>, cents |-> <<>>, jamt |-> FloatZero, error_msg |-> NoError]

AmtReturn(st, msg) == [st EXCEPT !.parse_state = "RETURNED", !.error_msg = msg]

\* One iteration of the for loop in one of the three states.
AmtChar(st, char) ==
    CASE st.parse_state = "START_AMT" ->
           IF char = SP THEN st
           ELSE IF char = "-"
                THEN [st EXCEPT !.sign_flag = TRUE, !.digit_ctr = 0, !.dollars = <<>>,
                                !.parse_state = "DOLLARS"]
           ELSE IF IsDigit(char)
                THEN IF DigitValue(char) < 0 THEN AmtReturn(st, ValueError)
                     ELSE [st EXCEPT !.digit_ctr = 1, !.dollars = FloatOfDigit(DigitValue(char)),
                                     !.parse_state = "DOLLARS"]
           ELSE AmtReturn(st, "Error, invalid amount in journal file")
      [] st.parse_state = "DOLLARS" ->
           IF IsDigit(char)
           THEN IF DigitValue(char) < 0 THEN AmtReturn(st, ValueError)
                ELSE [st EXCEPT !.digit_ctr = st.digit_ctr + 1,
                                !.dollars = FloatMul10Add(st.dollars, FloatOfDigit(DigitValue(char)))]
           ELSE IF char = "." /\ st.digit_ctr # 0
                THEN [st EXCEPT !.digit_ctr = 0, !.cents = <<>>, !.parse_state = "CENTS"]
           ELSE AmtReturn(st, "Error, invalid amount in journal file")
      [] st.parse_state = "CENTS" ->
           IF IsDigit(char)
           THEN IF DigitValue(char) < 0 THEN AmtReturn(st, ValueError)
                ELSE [st EXCEPT !.digit_ctr = st.digit_ctr + 1,
                                !.cents = FloatMul10Add(st.cents, FloatOfDigit(DigitValue(char)))]
           ELSE IF char = "," /\ st.digit_ctr = CentsDigits
                THEN [st EXCEPT !.jamt = FloatAmount(st.sign_flag, st.dollars, st.cents),
                                !.parse_state = "START_TYPE"]
           ELSE AmtReturn(st, "Error, invalid amount in journal file")
      [] OTHER -> st

\* The for loop over text from START_AMT until it returns or leaves CENTS.
RECURSIVE AmtLoop(_, _)
AmtLoop(st, text) ==
    IF text = <<>> \/ st.parse_state \in {"RETURNED", "START_TYPE"} THEN st
    ELSE AmtLoop(AmtChar(st, Head(text)), Tail(text))

\* Dollar values are written up to 2^MaxDollarBits, from 2^MinDollarBits - 1 on
\* at each power of two and the number before it.
MaxDollarBits == 47
MinDollarBits == MaxDollarBits - 7

DollarTexts ==
    { <<"0">>, <<"7">>, <<"2", "9", "2">>, <<"1", "2", "7", "5">> }
        \cup { BigText(ShiftLeft(<<1>>, k)) : k \in MinDollarBits .. MaxDollarBits }
        \cup { BigText(BigSub(ShiftLeft(<<1>>, k), <<1>>)) : k \in MinDollarBits .. MaxDollarBits }

CentsTexts == { ZeroPad(DecimalText(c), 2) : c \in 0 .. 99 }

\* Amount fields with the comma that ends them; and some that are no amount.
AmountFields ==
    { lead \o sign \o d \o <<".">> \o c \o <<",">> :
        lead \in {<<>>, <<SP>>}, sign \in {<<>>, <<"-">>}, d \in DollarTexts, c \in CentsTexts }
        \cup { <<"7", ".", "5", ",">>, <<"-", ".", "5", "0", ",">>, <<"7", SUP2, ".", "0", "0", ",">>,
               <<"x", ",">>, <<"7", ".", "0", "0", "0", ",">> }

AmountInit ==
    /\ pc = "input"
    /\ line \in AmountFields
    /\ res = AmtStart
    /\ working_year \in WorkingYears
    /\ ModstatIdle
    /\ cat_list = <<>>
    /\ cat_dict = <<>>
    /\ journal_list = <<>>
    /\ line_nbr = 0
    /\ lvl = 0
    /\ cidx = 0
    /\ error = NoFailure
    /\ todo = [month \in Months |-> FALSE]
    /\ months = 0

\* The parser runs over the amount field of the line.
ParseAmount ==
    /\ pc = "input"
    /\ res' = AmtLoop(AmtStart, line)
    /\ pc' = "parsed"
    /\ UNCHANGED <<cat_list, cat_dict, journal_list, line_nbr, lvl, cidx, error, line, working_year, modstat_vars, todo, months>>

\* The report prints the stored amount of an accepted line.
PrintAmount ==
    /\ pc = "parsed"
    /\ res.error_msg = NoError
    /\ error' = Failure(NoError, 0, FormatAmount(res.jamt))
    /\ pc' = "printed"
    /\ UNCHANGED <<cat_list, cat_dict, journal_list, line_nbr, lvl, cidx, line, res, working_year, modstat_vars, todo, months>>

SpecAmount == AmountInit /\ [][ParseAmount \/ PrintAmount]_vars

-----------------------------------------------------------------------------
(* The aggregation in float arithmetic: the loops of generate_cashflow_report *)
(* over a category with three children, the totals being the doubles that   *)
(* the loading of one transaction for each child leaves                      *)

\* x + y of two floats
FloatSum(x, y) ==
    IF x.neg = y.neg THEN Float(x.neg, FloatAdd(x.mag, y.mag))
    ELSE LET c == BigCmp(x.mag, y.mag)
         IN  IF c = 0 THEN FloatZero
             ELSE IF c > 0 THEN Float(x.neg, RoundToDouble(BigSub(x.mag, y.mag), FALSE))
             ELSE Float(y.neg, RoundToDouble(BigSub(y.mag, x.mag), FALSE))

\* CatCode.__init__ with its totals as the 0.0 they are
FloatCatCode(cat_code, level, line_num) ==
    [CatCode(cat_code, <<"A">>, <<>>, level, line_num) EXCEPT
        !.total = FloatZero, !.nested_total = FloatZero,
        !.monthly = [m \in Months |-> FloatZero],
        !.nested_monthly = [m \in Months |-> FloatZero]]

\* The amount fields of the transactions, and the jamt the parser makes of one
FoldAmounts ==
    { <<"0", ".", "0", "1", ",">>, <<"0", ".", "0", "2", ",">>,
      <<"-", "0", ".", "0", "3", ",">>, <<"0", ".", "1", "0", ",">> }

JamtOf(amount) == AmtLoop(AmtStart, amount).jamt

\* The codes of the three children, in file order
FoldChildren == << <<"1", ".", "1">>, <<"1", ".", "2">>, <<"1", ".", "3">> >>

\* journal_list after the loading of a transaction of 3/9 for each child,
\* amounts[k] that of child k, and cat_list after the hierarchy pass and
\* that loading.
FoldJournal(amounts) ==
    [k \in 1 .. 3 |->
        Journal(<<"0", "3", "/", "0", "9", "/", "2", "0", "1", "5">>, <<"P">>,
                JamtOf(amounts[k]), <<"t">>, FoldChildren[k], k, k)]

FoldRegistry(amounts) ==
    [i \in 1 .. 4 |->
        IF i = 1
        THEN [FloatCatCode(<<"1">>, 1, 1) EXCEPT !.children = <<1, 2, 3>>]
        ELSE [FloatCatCode(FoldChildren[i - 1], 2, i) EXCEPT
                !.parent = 0,
                !.journal = <<i - 2>>,
                !.total = FloatSum(@, JamtOf(amounts[i - 1])),
                !.monthly[2] = FloatSum(@, JamtOf(amounts[i - 1])),
                !.longest = 1]]

FoldInit ==
    /\ pc = "agg"
    /\ \E amounts \in [1 .. 3 -> FoldAmounts] :
          /\ cat_list = FoldRegistry(amounts)
          /\ journal_list = FoldJournal(amounts)
    /\ cat_dict = [code \in {<<"1">>} \cup {FoldChildren[k] : k \in 1 .. 3} |->
                      IF code = <<"1">> THEN 0 ELSE DigitValue(code[3])]
    /\ line_nbr = 3
    /\ lvl = FirstFoldLevel
    /\ cidx = 0
    /\ error = NoFailure
    /\ todo = [month \in Months |-> FALSE]
    /\ months = 0
    /\ line = <<>>
    /\ res = JrnSkip
    /\ working_year \in WorkingYears
    /\ ModstatIdle

\* The body of the two loops for the node at cidx_, in float arithmetic
FloatFold(cats, cidx_) ==
    LET pidx == cats[cidx_ + 1].parent
        child == cats[cidx_ + 1]
    IN  [cats EXCEPT
           ![pidx + 1].nested_total = FloatSum(@, FloatSum(child.total, child.nested_total)),
           ![pidx + 1].nested_monthly =
               [mon_idx \in Months |->
                   FloatSum(@[mon_idx], FloatSum(child.monthly[mon_idx], child.nested_monthly[mon_idx]))]]

\* AggStep in float arithmetic
FloatAggStep ==
    /\ pc = "agg"
    /\ LET at == NextFold(lvl, cidx)
       IN  IF at.lvl < LowestFoldLevel
           THEN /\ pc' = "report"
                /\ lvl' = at.lvl
                /\ cidx' = at.cidx
                /\ UNCHANGED cat_list
           ELSE /\ cat_list' = FloatFold(cat_list, at.cidx)
                /\ lvl' = at.lvl
                /\ cidx' = at.cidx + 1
                /\ UNCHANGED pc
    /\ UNCHANGED <<cat_dict, journal_list, line_nbr, error, line, res, working_year, modstat_vars, todo, months>>

SpecFold == FoldInit /\ [][FloatAggStep]_vars

-----------------------------------------------------------------------------
(* The loading and the aggregation in float arithmetic: the loop of          *)
(* read_and_parse_journal_file over a few transactions of two months for the *)
(* child of one category, then the loops of the aggregation and the months   *)
(* and averages of the report                                                *)

\* Most transactions the journal has.
MaxFloatLines == 4

\* The amount fields of the transactions
FloatAmounts ==
    { <<"0", ".", "0", "1", ",">>, <<"0", ".", "0", "2", ",">>,
      <<"-", "0", ".", "0", "1", ",">>, <<"-", "0", ".", "0", "2", ",">> }

\* The months the transactions are dated in, as the parser writes them
FloatDates ==
    { <<"0", "1", "/", "0", "9", "/", "2", "0", "1", "5">>,
      <<"0", "2", "/", "0", "9", "/", "2", "0", "1", "5">> }

\* The codes the transactions have
FloatCodes == { <<"1", ".", "1">> }

\* Post in float arithmetic
FloatPost(cats, cat_idx, jidx, jobj) ==
    LET mon_idx == IntOf(Slice(jobj.date, 0, 2)) - 1
    IN  [cats EXCEPT
           ![cat_idx + 1].journal = Append(@, jidx),
           ![cat_idx + 1].total = FloatSum(@, jobj.amt),
           ![cat_idx + 1].monthly[mon_idx] = FloatSum(@, jobj.amt),
           ![cat_idx + 1].longest = IF Len(jobj.descr) > @ THEN Len(jobj.descr) ELSE @]

\* The registry of the category 1 and its child 1.1 after the hierarchy pass
FloatLoadInit ==
    /\ pc = "journal"
    /\ cat_list =
          << [FloatCatCode(<<"1">>, 1, 1) EXCEPT !.children = <<1>>],
             [FloatCatCode(<<"1", ".", "1">>, 2, 2) EXCEPT !.parent = 0] >>
    /\ cat_dict = [code \in {<<"1">>} \cup FloatCodes |->
                      IF code = <<"1">> THEN 0 ELSE DigitValue(code[3])]
    /\ journal_list = <<>>
    /\ line_nbr = 0
    /\ lvl = 0
    /\ cidx = 0
    /\ error = NoFailure
    /\ todo = [month \in Months |-> FALSE]
    /\ months = 0
    /\ line = <<>>
    /\ res = JrnSkip
    /\ working_year \in WorkingYears
    /\ ModstatIdle

\* One iteration of the loop over the journal file, for a line that the
\* parser accepts with the date, the amount text and the code given
FloatReadJournalLine(date, amount, code) ==
    /\ pc = "journal"
    /\ line_nbr < MaxFloatLines
    /\ LET n == line_nbr + 1
           cat_idx == cat_dict[code]
           journal_obj == Journal(date, <<"P">>, JamtOf(amount), <<"t">>, code, cat_idx, n)
       IN  /\ line_nbr' = n
           /\ journal_list' = Append(journal_list, journal_obj)
           /\ cat_list' = FloatPost(cat_list, cat_idx, cidx, journal_obj)
           /\ cidx' = cidx + 1
    /\ UNCHANGED <<pc, cat_dict, lvl, error, line, res, working_year, modstat_vars, todo, months>>

\* EndJournalFile for a journal that has a transaction
FloatEndJournalFile ==
    /\ pc = "journal"
    /\ Len(journal_list) > 0
    /\ pc' = "agg"
    /\ lvl' = FirstFoldLevel
    /\ cidx' = 0
    /\ UNCHANGED <<cat_list, cat_dict, journal_list, line_nbr, error, line, res, working_year, modstat_vars, todo, months>>

\* Activity and DividesByZero in float arithmetic
FloatActivity(cats, month) ==
    \E i \in 1 .. Len(cats) :
        FloatSum(cats[i].monthly[month], cats[i].nested_monthly[month]).mag # <<>>

FloatDividesByZero(cats, months_) ==
    months_ = 0 /\ \E i \in 1 .. Len(cats) :
                      FloatSum(cats[i].total, cats[i].nested_total).mag # <<>>

\* ReportStep in float arithmetic
FloatReportStep ==
    /\ pc = "report"
    /\ cat_list' = [i \in 1 .. Len(cat_list) |->
                       [cat_list[i] EXCEPT !.journal = SortByDate(cat_list[i].journal)]]
    /\ todo' = [month \in Months |-> FloatActivity(cat_list, month)]
    /\ months' = Count([month \in Months |-> FloatActivity(cat_list, month)])
    /\ IF FloatDividesByZero(cat_list, Count([month \in Months |-> FloatActivity(cat_list, month)]))
       THEN /\ error' = Failure(ZeroDivisionError, 0, None)
            /\ pc' = "exit"
       ELSE /\ pc' = "done"
            /\ UNCHANGED error
    /\ UNCHANGED <<cat_dict, journal_list, line_nbr, lvl, cidx, line, res, working_year, modstat_vars>>

NextFloat ==
    \/ \E date \in FloatDates, amount \in FloatAmounts, code \in FloatCodes :
          FloatReadJournalLine(date, amount, code)
    \/ FloatEndJournalFile
    \/ FloatAggStep
    \/ FloatReportStep

SpecFloat == FloatLoadInit /\ [][NextFloat]_vars

-----------------------------------------------------------------------------
(* modstat.py: count_lines reads a source, character by character *)

\* The variables of cashflow.py, and their values when it has not run.
cashflow_vars ==
    <<cat_list, cat_dict, journal_list, line_nbr, lvl, cidx, error, line, res, working_year, todo, months>>

CashflowIdle ==
    /\ cat_list = <<>>
    /\ cat_dict = <<>>
    /\ journal_list = <<>>
    /\ line_nbr = 0
    /\ lvl = 0
    /\ cidx = 0
    /\ error = NoFailure
    /\ todo = [month \in Months |-> FALSE]
    /\ months = 0
    /\ line = <<>>
    /\ res = CatSkip
    /\ working_year \in WorkingYears

\* Longest source, over the two quotes, newline, "#", backslash and a letter.
MaxSourceLen == 7
SourceChars == {"\"", "'", NL, "#", BACKSLASH, "a"}

CountInit ==
    /\ pc = "count"
    /\ CashflowIdle
    /\ ModstatIdle

\* One iteration of the for loop of count_lines: the next character of the
\* source is char.
ReadChar(char) ==
    /\ pc = "count"
    /\ Len(source) < MaxSourceLen
    /\ source' = Append(source, char)
    /\ cl' = CountChar(cl, char)
    /\ UNCHANGED <<pc, cashflow_vars, docstring_lines, total_blank_lines, total_comment_lines,
                   total_executable_lines, total_docstring_lines, file_count, printed,
                   import_names, from_import_names>>

SpecCount == CountInit /\ [][\E char \in SourceChars : ReadChar(char)]_vars

-----------------------------------------------------------------------------
(* modstat.py: main and process_file *)

\* Files that the patterns of the command line match.
MaxFiles == 3

\* A file a pattern matches: its name, what becomes of reading and parsing
\* it ("missing": not a file; "oserror": it cannot be read; "syntax" and
\* "value": ast.parse raises; "ok"), its text, and the docstrings of its
\* module, classes and functions as the tree of ast.parse has them.
File(name, kind, program, docstrings) ==
    [name |-> name, kind |-> kind, program |-> program, docstrings |-> docstrings,
     imports |-> <<>>, from_imports |-> <<>>]

\* An alias of a statement's names: "name" or "name as asname"
Alias(name, asname) == [name |-> name, asname |-> asname]

\* The Import nodes of the tree of ast.parse, and its ImportFrom nodes
Imports(file, imports, from_imports) ==
    [file EXCEPT !.imports = imports, !.from_imports = from_imports]

ImportFrom(level, module, names) == [level |-> level, module |-> module, names |-> names]

Files ==
    { File("a.py", "ok", <<"a", NL, NL, "#", NL>>, <<>>),
      File("d.py", "ok", <<"\"", "\"", "\"", NL, "a", NL, "\"", "\"", "\"", NL, "#", NL>>,
           << <<NL, "a", NL>> >>),
      File("s.py", "syntax", <<"a", "\"", NL, "#", NL>>, <<>>),
      File("v.py", "value", <<"a", NL>>, <<>>),
      File("m.py", "missing", <<>>, <<>>),
      File("o.py", "oserror", <<"a", NL>>, <<>>),
      \* import os, ast as t
      \* import sys
      Imports(File("i.py", "ok",
                   <<"i", "m", "p", "o", "r", "t", SP, "o", "s", ",", SP,
                     "a", "s", "t", SP, "a", "s", SP, "t", NL,
                     "i", "m", "p", "o", "r", "t", SP, "s", "y", "s", NL>>, <<>>),
              << <<Alias(<<"o", "s">>, None), Alias(<<"a", "s", "t">>, <<"t">>)>>,
                 <<Alias(<<"s", "y", "s">>, None)>> >>,
              <<>>),
      \* from b import y,x as z
      Imports(File("f.py", "ok",
                   <<"f", "r", "o", "m", SP, "b", SP, "i", "m", "p", "o", "r", "t", SP,
                     "y", ",", "x", SP, "a", "s", SP, "z", NL>>, <<>>),
              <<>>,
              <<ImportFrom(0, <<"b">>, <<Alias(<<"y">>, None), Alias(<<"x">>, <<"z">>)>>)>>),
      \* from b import a
      \* from . import c
      Imports(File("g.py", "ok",
                   <<"f", "r", "o", "m", SP, "b", SP, "i", "m", "p", "o", "r", "t", SP, "a", NL,
                     "f", "r", "o", "m", SP, ".", SP, "i", "m", "p", "o", "r", "t", SP, "c", NL>>, <<>>),
              <<>>,
              <<ImportFrom(0, <<"b">>, <<Alias(<<"a">>, None)>>),
                ImportFrom(1, None, <<Alias(<<"c">>, None)>>)>>) }

\* docstring.count("\n") of a text
CountNewlines(docstring) == Cardinality({k \in 1 .. Len(docstring) : docstring[k] = NL})

\* NodePicker().visit(tree): what the visits of the nodes that have a
\* docstring add to docstring_lines, one docstring after the other.
RECURSIVE NodePicker(_, _)
NodePicker(lines, docstrings) ==
    IF docstrings = <<>> THEN lines
    ELSE NodePicker(IF Head(docstrings) # <<>>
                    THEN lines + (CountNewlines(Head(docstrings)) + 1)
                    ELSE lines,
                    Tail(docstrings))

\* mod_name / identifier_name of an alias: the "as" phrase is tacked on.
ModName(alias) ==
    IF alias.asname # None
    THEN alias.name \o <<SP, "a", "s", SP>> \o alias.asname
    ELSE alias.name

\* visit_Import(node): the names of one import statement are appended.
visit_Import(names, node) ==
    names \o [k \in 1 .. Len(node) |-> ModName(node[k])]

\* list.sort() of a list of str
RECURSIVE SortNames(_)
SortNames(names) ==
    IF names = <<>> THEN <<>>
    ELSE LET front == SortNames(SubSeq(names, 1, Len(names) - 1))
             last == names[Len(names)]
             keep == Cardinality({k \in 1 .. Len(front) : ~TextLess(last, front[k])})
         IN  SubSeq(front, 1, keep) \o <<last>> \o SubSeq(front, keep + 1, Len(front))

\* visit_ImportFrom(node): the 2-tuple of one from/import statement, the
\* module name with its relative path dots and the sorted identifiers, is
\* appended.
visit_ImportFrom(names, node) ==
    LET mod_name == [k \in 1 .. node.level |-> "."]
                        \o (IF node.module # None THEN node.module ELSE <<>>)
        identifier_list == SortNames([k \in 1 .. Len(node.names) |-> ModName(node.names[k])])
    IN  Append(names, [mod_name |-> mod_name, identifier_list |-> identifier_list])

\* NodePicker().visit(tree): the visits of the Import nodes, one after the
\* other, and those of the ImportFrom nodes.
RECURSIVE VisitImports(_, _)
VisitImports(names, nodes) ==
    IF nodes = <<>> THEN names
    ELSE VisitImports(visit_Import(names, Head(nodes)), Tail(nodes))

RECURSIVE VisitImportFroms(_, _)
VisitImportFroms(names, nodes) ==
    IF nodes = <<>> THEN names
    ELSE VisitImportFroms(visit_ImportFrom(names, Head(nodes)), Tail(nodes))

\* from_import_names.sort(key = lambda data: data[0]): a stable sort
RECURSIVE SortByModule(_)
SortByModule(names) ==
    IF names = <<>> THEN <<>>
    ELSE LET front == SortByModule(SubSeq(names, 1, Len(names) - 1))
             last == names[Len(names)]
             keep == Cardinality({k \in 1 .. Len(front) :
                                     ~TextLess(last.mod_name, front[k].mod_name)})
         IN  SubSeq(front, 1, keep) \o <<last>> \o SubSeq(front, keep + 1, Len(front))

\* A while loop that returns at the last module name before it pops it.
RECURSIVE PrintImportLoopKeepsLast(_, _, _)
PrintImportLoopKeepsLast(names, import_len, out) ==
    IF import_len > 0
    THEN IF import_len = 1
         THEN [import_names |-> names, out |-> Append(out, Head(names))]
         ELSE PrintImportLoopKeepsLast(Tail(names), import_len - 1, Append(out, Head(names)))
    ELSE [import_names |-> names, out |-> out]

\* The while loop of print_import_info: a module name is popped and
\* printed, the last one with a newline; out is what was printed before.
\* (The breaks of the lines longer than 80 are not modelled.)
RECURSIVE PrintImportLoop(_, _, _)
PrintImportLoop(names, import_len, out) ==
    IF import_len > 0
    THEN LET mod_name == Head(names)
             rest == Tail(names)
         IN  IF import_len = 1
             THEN [import_names |-> rest, out |-> Append(out, mod_name)]
             ELSE PrintImportLoop(rest, import_len - 1, Append(out, mod_name))
    ELSE [import_names |-> names, out |-> out]

\* print_import_info(): what is left of import_names, and the names
\* printed after "Import: ", none of them for "Import: none".
print_import_info(names) ==
    LET import_len == Len(names)
    IN  IF import_len > 0
        THEN PrintImportLoop(SortNames(names), import_len, <<>>)
        ELSE [import_names |-> names, out |-> <<>>]

\* print_info(last_module): the identifiers of identifier_list are popped
\* and printed one by one; out is what was printed before.
RECURSIVE print_info(_, _)
print_info(identifier_list, out) ==
    IF Len(identifier_list) > 0
    THEN print_info(Tail(identifier_list), Append(out, Head(identifier_list)))
    ELSE out

\* The while loop of print_from_import_info: a 2-tuple is popped and
\* print_info prints it.
RECURSIVE PrintFromImportLoop(_, _, _)
PrintFromImportLoop(names, import_len, out) ==
    IF import_len > 0
    THEN LET data == Head(names)
         IN  PrintFromImportLoop(Tail(names), import_len - 1,
                                 Append(out, [module |-> data.mod_name,
                                              identifiers |-> print_info(data.identifier_list, <<>>)]))
    ELSE [from_import_names |-> names, out |-> out]

\* print_from_import_info(): what is left of from_import_names, and the
\* modules printed after "From/Import: ", none for "From/Import: none".
print_from_import_info(names) ==
    LET import_len == Len(names)
    IN  IF import_len > 0
        THEN PrintFromImportLoop(SortByModule(names), import_len, <<>>)
        ELSE [from_import_names |-> names, out |-> <<>>]

\* What process_file prints of a file it cannot process
Ignored(file) == [what |-> file.kind, file |-> file.name]

\* What process_file prints of a file it has processed: the names after
\* "Import:" and "From/Import:", and the line "Lines:"
Lines(file, imports, from_imports, blank, comment, executable, docstring) ==
    [what |-> "Lines", file |-> file.name,
     imports |-> imports, from_imports |-> from_imports,
     lines |-> blank + comment + executable,
     executable |-> executable - docstring,
     nonexecutable |-> blank + comment + docstring,
     blank |-> blank, comment |-> comment, docstring |-> docstring]

\* round(x / n) of two integers, n > 0: to the nearest integer, and to the
\* even one of the two when x / n is halfway between them.
Round(x, n) ==
    LET q == x \div n
        r == x % n
    IN  IF 2 * r < n THEN q
        ELSE IF 2 * r > n THEN q + 1
        ELSE IF q % 2 = 0 THEN q ELSE q + 1

\* What main prints after the files: the grand totals and the averages
Tally ==
    LET final_lines == total_blank_lines + total_comment_lines + total_executable_lines
        final_executable == total_executable_lines - total_docstring_lines
        final_nonexecutable == total_blank_lines + total_comment_lines + total_docstring_lines
    IN  [what |-> "Total", files |-> file_count,
         lines |-> final_lines, executable |-> final_executable,
         nonexecutable |-> final_nonexecutable, blank |-> total_blank_lines,
         comment |-> total_comment_lines, docstring |-> total_docstring_lines,
         average |-> [lines |-> Round(final_lines, file_count),
                      executable |-> Round(final_executable, file_count),
                      nonexecutable |-> Round(final_nonexecutable, file_count),
                      blank |-> Round(total_blank_lines, file_count),
                      comment |-> Round(total_comment_lines, file_count),
                      docstring |-> Round(total_docstring_lines, file_count)]]

\* Parses for a process_file that goes on after the error of ast.parse.
ParsesAnyway(file) == file.kind \in {"ok", "syntax", "value"}

\* ast.parse(program) raises none of SyntaxError, TypeError and ValueError.
Parses(file) == file.kind = "ok"

ModstatInit ==
    /\ pc = "files"
    /\ CashflowIdle
    /\ ModstatIdle

\* One iteration of the loops of main over the matches of the patterns:
\* process_file(match) of the file, and the count of it when that is True.
ProcessFile(file) ==
    /\ pc = "files"
    /\ Len(printed) < MaxFiles
    /\ IF file.kind \in {"missing", "oserror"} \/ ~Parses(file)
       THEN /\ docstring_lines' = 0
            /\ printed' = Append(printed, Ignored(file))
            /\ UNCHANGED <<total_blank_lines, total_comment_lines, total_executable_lines,
                           total_docstring_lines, file_count, import_names, from_import_names>>
       ELSE LET docs == NodePicker(0, file.docstrings)
                counts == count_lines(file.program)
                imports == print_import_info(VisitImports(import_names, file.imports))
                from_imports ==
                    print_from_import_info(VisitImportFroms(from_import_names, file.from_imports))
            IN  /\ docstring_lines' = docs
                /\ import_names' = imports.import_names
                /\ from_import_names' = from_imports.from_import_names
                /\ total_docstring_lines' = total_docstring_lines + docs
                /\ total_blank_lines' = total_blank_lines + counts[1]
                /\ total_comment_lines' = total_comment_lines + counts[2]
                /\ total_executable_lines' = total_executable_lines + counts[3]
                /\ printed' = Append(printed, Lines(file, imports.out, from_imports.out,
                                                    counts[1], counts[2], counts[3], docs))
                /\ file_count' = file_count + 1
    /\ UNCHANGED <<pc, cashflow_vars, source, cl>>

\* The loops are over: the final tally, if more than one file was processed.
EndOfFiles ==
    /\ pc = "files"
    /\ pc' = "end"
    /\ printed' = IF file_count > 1 THEN Append(printed, Tally) ELSE printed
    /\ UNCHANGED <<cashflow_vars, source, cl, docstring_lines, total_blank_lines, total_comment_lines,
                   total_executable_lines, total_docstring_lines, file_count,
                   import_names, from_import_names>>

NextModstat ==
    \/ \E file \in Files : ProcessFile(file)
    \/ EndOfFiles

SpecModstat == ModstatInit /\ [][NextModstat]_vars

-----------------------------------------------------------------------------
(* Properties of the run *)

\* The messages of the format errors of a code, a date and a category field
CodeFormatErrors ==
    {"Error, invalid category file format",
     "Error, invalid category code, too many digits",
     "Error, invalid category code, level nested too deeply"}

DateErrors ==
    {"Error, invalid month in journal file",
     "Error, invalid date in journal file",
     "Error, invalid leap year date in journal file"}

CategoryFormatErrors ==
    {"Error, invalid category code in journal file", "Error, invalid journal file format"}

\* How many spaces text begins with
RECURSIVE LeadSpaces(_)
LeadSpaces(text) ==
    IF text # <<>> /\ text[1] = SP THEN 1 + LeadSpaces(Tail(text)) ELSE 0

\* The first position from position from on where text has ch; 0 when none
RECURSIVE IndexFrom(_, _, _)
IndexFrom(text, ch, from) ==
    IF from > Len(text) THEN 0
    ELSE IF text[from] = ch THEN from
    ELSE IndexFrom(text, ch, from + 1)

AllIn(text, S) == \A k \in 1 .. Len(text) : text[k] \in S

\* The codes of the registry
Codes == {Cat(i).cat_str : i \in CatIndices}

\* Node d lies strictly below node a: a's code and a "." begin d's code.
IsStrictDescendant(d, a) ==
    LET ca == Cat(a).cat_str
        cd == Cat(d).cat_str
    IN  /\ Len(cd) > Len(ca)
        /\ SubSeq(cd, 1, Len(ca)) = ca
        /\ cd[Len(ca) + 1] = "."

Descendants(a) == {d \in CatIndices : IsStrictDescendant(d, a)}

RECURSIVE SumTotal(_)
SumTotal(S) ==
    IF S = {} THEN 0
    ELSE LET i == CHOOSE x \in S : TRUE IN Cat(i).total + SumTotal(S \ {i})

RECURSIVE SumMonthly(_, _)
SumMonthly(S, m) ==
    IF S = {} THEN 0
    ELSE LET i == CHOOSE x \in S : TRUE IN Cat(i).monthly[m] + SumMonthly(S \ {i}, m)

\* C1: after the aggregation, every node's nested_total is the sum of the
\* direct totals of its strict descendants at any depth, and so is each of
\* its 12 nested_monthly values for the month's direct totals.
C1_NestedIsSumOfDescendants ==
    pc = "report" =>
        \A a \in CatIndices :
            LET below == Descendants(a)
            IN  /\ Cat(a).nested_total = SumTotal(below)
                /\ \A m \in Months : Cat(a).nested_monthly[m] = SumMonthly(below, m)

\* A level-1 node has taken up the totals of a level-2 and of a level-4 descendant.
C1_Witness ==
    /\ pc = "report"
    /\ \E a, d2, d4 \in CatIndices :
          /\ Cat(a).level = 1 /\ Cat(d2).level = 2 /\ Cat(d4).level = 4
          /\ {d2, d4} \subseteq Descendants(a)
          /\ Cat(d2).total # 0 /\ Cat(d4).total # 0
          /\ Cat(a).nested_total = Cat(d2).total + Cat(d4).total

\* code without its last segment and the "." before it
RECURSIVE WithoutLastSegment(_)
WithoutLastSegment(code) ==
    IF code = <<>> THEN <<>>
    ELSE IF code[Len(code)] = "." THEN SubSeq(code, 1, Len(code) - 1)
    ELSE WithoutLastSegment(SubSeq(code, 1, Len(code) - 1))

\* The hierarchy pass has run to its end without an error.
HierarchyPassed ==
    \/ pc \in {"journal", "agg", "report", "done"}
    \/ pc = "exit" /\ "jamt" \in DOMAIN res

\* C2: a category file that has a child before its parent is rejected: in a
\* run that gets past the hierarchy pass every node of level 2 to 4 comes
\* after its parent in the registry.
C2_ParentListedBeforeChild ==
    HierarchyPassed =>
        \A i \in CatIndices :
            Cat(i).level > 1 =>
                \E p \in CatIndices : p < i /\ Cat(p).cat_str = WithoutLastSegment(Cat(i).cat_str)

SomeParentMissing ==
    LET codes == Codes
    IN  \E i \in CatIndices : Cat(i).level > 1 /\ WithoutLastSegment(Cat(i).cat_str) \notin codes

MissingParentMsg == "Error, parent category missing or appears after child category"

DuplicateMsg == "Error, duplicate category code found"

\* C4: a category code on a second line ends the run with the duplicate
\* error naming that line, and no node is made for it; a code read for the
\* first time becomes the last node, with its line number, and no error.
C4_DuplicateIsFatal ==
    /\ \A i, j \in CatIndices : Cat(i).cat_str = Cat(j).cat_str => i = j
    /\ error.msg = DuplicateMsg =>
          /\ pc = "exit"
          /\ error.line_nbr = line_nbr
          /\ \E i \in CatIndices : Cat(i).cat_str = res.cat_code /\ Cat(i).line_nbr < line_nbr
          /\ \A i \in CatIndices : Cat(i).line_nbr # line_nbr
    /\ (pc = "cat" /\ line_nbr > 0 /\ res.cat_code # <<>>) =>
          /\ error = NoFailure
          /\ Cat(Len(cat_list) - 1).cat_str = res.cat_code
          /\ Cat(Len(cat_list) - 1).line_nbr = line_nbr

\* The third line repeats a code and two nodes stand.
C4_Witness ==
    /\ error.msg = DuplicateMsg
    /\ error.line_nbr = 3
    /\ Len(cat_list) = 2

UndefinedMsg == "Error, undefined category code found"

\* C5: a journal line the parser accepts whose code is not in the registry
\* ends the run with the undefined-category error naming that line, and
\* leaves every category and the transaction list as they were; the error is
\* raised for no other line.
C5_UndefinedCategoryIsFatal ==
    [][(pc = "journal" /\ line_nbr' = line_nbr + 1) =>
          LET undefined == /\ res'.error_msg = NoError
                           /\ res'.jcat_code # <<>>
                           /\ res'.jcat_code \notin Codes
          IN  /\ undefined <=> error'.msg = UndefinedMsg
              /\ undefined =>
                    /\ pc' = "exit"
                    /\ error'.line_nbr = line_nbr'
                    /\ cat_list' = cat_list
                    /\ journal_list' = journal_list
                    /\ cat_dict' = cat_dict]_vars

\* The second journal line names an undefined code; the first stays loaded.
C5_Witness ==
    /\ error.msg = UndefinedMsg
    /\ error.line_nbr = 2
    /\ Len(journal_list) = 1
    /\ res.jcat_code = <<"9", ".", "9">>

\* The description field of a journal line: from after the first comma and
\* its spaces to the second comma, without the spaces before that.
DescrText(text) ==
    LET comma == IndexFrom(text, ",", 1)
        rest == SubSeq(text, comma + 1, Len(text))
        start == LeadSpaces(rest) + 1
    IN  rstrip(SubSeq(rest, start, IndexFrom(rest, ",", start) - 1))

\* The month a journal line is dated in, 1 to 12
MonthOf(text) ==
    LET start == LeadSpaces(text) + 1
    IN  IntOf(SubSeq(text, start, IndexFrom(text, "/", start) - 1))

\* C12: loading one valid transaction with category c, month k and amount a
\* appends it to c's transaction list, adds a to c's total and to c's
\* monthly[k-1], raises c's longest to the description's length if that is
\* larger, and leaves every other field of c, every other month of c and
\* every other category as they were.
C12_LoadTouchesOnlyItsCategory ==
    [][(pc = "journal" /\ journal_list' # journal_list) =>
          LET c == cat_dict[res'.jcat_code]
              k == MonthOf(line')
              a == res'.jamt
              jidx == Len(journal_list)
              before == cat_list[c + 1]
              after == cat_list'[c + 1]
              width == Len(DescrText(line'))
          IN  /\ journal_list' = Append(journal_list, journal_list'[jidx + 1])
              /\ journal_list'[jidx + 1].amt = a
              /\ journal_list'[jidx + 1].cat_idx = c
              /\ after.journal = Append(before.journal, jidx)
              /\ after.total = before.total + a
              /\ after.monthly[k - 1] = before.monthly[k - 1] + a
              /\ \A m \in Months \ {k - 1} : after.monthly[m] = before.monthly[m]
              /\ after.longest = IF width > before.longest THEN width ELSE before.longest
              /\ after = [before EXCEPT !.journal = after.journal, !.total = after.total,
                                        !.monthly = after.monthly, !.longest = after.longest]
              /\ Len(cat_list') = Len(cat_list)
              /\ \A i \in CatIndices : i # c => cat_list'[i + 1] = cat_list[i + 1]
              /\ cat_dict' = cat_dict]_vars

\* Two transactions of March stand in one category: 10.00 with the
\* description P, then -10.00 with the description Rent.
C12_Witness ==
    /\ pc = "journal"
    /\ \E c \in CatIndices :
          /\ Cat(c).journal = <<0, 1>>
          /\ Cat(c).longest = 4
          /\ Cat(c).total = 0
          /\ Jrn(0).amt = 1000 /\ Jrn(1).amt = -1000
          /\ Cat(c).monthly[2] = 0

\* The node of a code of the registry
CatOf(code) == Cat(cat_dict[code])

\* The four categories and the two transactions of the example are loaded.
ExampleLoaded ==
    /\ Len(cat_list) = 4
    /\ Codes = {<<"1">>, <<"1", ".", "1">>, <<"2">>, <<"2", ".", "1">>}
    /\ Len(journal_list) = 2
    /\ {Jrn(0).descr, Jrn(1).descr} = {<<"P", "a", "y", "c", "h", "e", "c", "k">>, <<"R", "e", "n", "t">>}

\* C13: with the categories 1, 1.1, 2, 2.1 and the transactions 3/9 Paycheck
\* 1000.00 in 1.1 and 3/10 Rent 800.00 in 2.1, the run ends with nested
\* total 1000.00 in 1, total 1000.00 in 1.1, nested total 800.00 in 2, total
\* 800.00 in 2.1, the same figures in March (index 2), zero in every other
\* month, and 1 month with activity.
C13_ExampleRun ==
    (pc = "done" /\ ExampleLoaded) =>
        /\ CatOf(<<"1">>).nested_total = 100000
        /\ CatOf(<<"1", ".", "1">>).total = 100000
        /\ CatOf(<<"2">>).nested_total = 80000
        /\ CatOf(<<"2", ".", "1">>).total = 80000
        /\ CatOf(<<"1">>).nested_monthly[2] = 100000
        /\ CatOf(<<"1", ".", "1">>).monthly[2] = 100000
        /\ CatOf(<<"2">>).nested_monthly[2] = 80000
        /\ CatOf(<<"2", ".", "1">>).monthly[2] = 80000
        /\ \A i \in CatIndices : \A m \in Months \ {2} :
              Cat(i).monthly[m] = 0 /\ Cat(i).nested_monthly[m] = 0
        /\ months = 1

\* The example has run to its end, the files in the order of the example.
C13_Witness ==
    /\ pc = "done"
    /\ ExampleLoaded
    /\ Cat(0).cat_str = <<"1">> /\ Cat(1).cat_str = <<"1", ".", "1">>
    /\ Cat(2).cat_str = <<"2">> /\ Cat(3).cat_str = <<"2", ".", "1">>
    /\ Jrn(0).date = <<"0", "3", "/", "0", "9", "/", "2", "0", "1", "5">>
    /\ Jrn(1).date = <<"0", "3", "/", "1", "0", "/", "2", "0", "1", "5">>
    /\ todo[2]

\* The months m, as indices 0 to 11, in which some category has
\* monthly[m] + nested_monthly[m] other than zero
ActiveMonths ==
    {m \in Months : \E i \in CatIndices : Cat(i).monthly[m] + Cat(i).nested_monthly[m] # 0}

DatedMonths == {IntOf(SubSeq(Jrn(j).date, 1, 2)) - 1 : j \in 0 .. Len(journal_list) - 1}

\* C15: the divisor of the monthly averages, and the months that get a
\* monthly summary, are the months that have transactions in the journal
\* file, a month whose transactions cancel to zero included.
C15_MonthsCountsDatedMonths ==
    pc = "done" =>
        /\ months = Cardinality(DatedMonths)
        /\ \A m \in Months : todo[m] <=> m \in DatedMonths

\* The errors that name the line they were found in
LineErrors ==
    CodeFormatErrors \cup DateErrors \cup CategoryFormatErrors
        \cup {"Error, invalid category file format, missing description", DuplicateMsg,
              UndefinedMsg, "Error, invalid amount in journal file",
              "Error, invalid description in journal file",
              "Error, invalid transaction type in journal file"}

\* C18: every error is fatal: the step that reports an error ends the run
\* at the line it names and loads nothing, no step follows it, so no later
\* line is parsed or loaded, and the aggregation and the report are reached
\* only where no error was reported.
C18_EveryErrorIsFatal ==
    [][/\ pc # "exit"
       /\ error = NoFailure
       /\ error' # NoFailure =>
             /\ pc' = "exit"
             /\ cat_list' = cat_list /\ cat_dict' = cat_dict /\ journal_list' = journal_list
             /\ error'.msg \in LineErrors => error'.line_nbr = line_nbr'
             /\ \A i \in CatIndices :
                   Cat(i).nested_total = 0 /\ \A m \in Months : Cat(i).nested_monthly[m] = 0
       /\ pc' \in {"agg", "report", "done"} => error' = NoFailure]_vars

\* The second journal line has no newline: a format error of line 2, after
\* which one transaction and no nested total stands.
C18_Witness ==
    /\ pc = "exit"
    /\ error.msg = "Error, invalid journal file format"
    /\ error.line_nbr = 2
    /\ Len(journal_list) = 1
    /\ \A i \in CatIndices : Cat(i).nested_total = 0

\* The phases in their order, and the exit any of the first three can take.
PhaseOrder ==
    {<<"cat", "cat">>, <<"cat", "hier">>, <<"hier", "hier">>, <<"hier", "journal">>,
     <<"journal", "journal">>, <<"journal", "agg">>, <<"agg", "agg">>, <<"agg", "report">>,
     <<"report", "done">>, <<"cat", "exit">>, <<"hier", "exit">>, <<"journal", "exit">>}

\* The nested figures and the links of the nodes of a registry that are
\* in cat_list now, and the codes of a registry
NestedOf(cats) == [i \in 1 .. Len(cat_list) |-> <<cats[i].nested_total, cats[i].nested_monthly>>]
LinksOf(cats) == [i \in 1 .. Len(cat_list) |-> <<cats[i].parent, cats[i].children>>]
CodesOf(cats) == [i \in 1 .. Len(cats) |-> cats[i].cat_str]

\* Every node of level 2 to 4 has its parent, and its parent has it.
HierarchyComplete ==
    \A i \in CatIndices :
        Cat(i).level > 1 =>
            /\ Cat(i).parent # NoParent
            /\ \E k \in 1 .. Len(Cat(Cat(i).parent).children) : Cat(Cat(i).parent).children[k] = i

\* C19: the phases come in the order category lines, hierarchy, journal
\* lines, aggregation (then the report): the registry changes only while
\* the category file is read and the links only in the hierarchy pass; a
\* transaction is loaded only when the registry and the hierarchy are
\* complete, in file order; a nested total is written only in the
\* aggregation, after which no transaction is loaded.
C19_PhasesInOrder ==
    [][/\ <<pc, pc'>> \in PhaseOrder
       /\ Len(cat_list') >= Len(cat_list)
       /\ (CodesOf(cat_list') # CodesOf(cat_list) \/ cat_dict' # cat_dict) => pc = "cat"
       /\ LinksOf(cat_list') # LinksOf(cat_list) => pc = "hier"
       /\ journal_list' # journal_list =>
             /\ pc = "journal"
             /\ HierarchyComplete
             /\ journal_list' = Append(journal_list, journal_list'[Len(journal_list')])
             /\ journal_list'[Len(journal_list')].line_nbr = line_nbr'
             /\ \A j \in 1 .. Len(journal_list) : journal_list[j].line_nbr < line_nbr'
       /\ NestedOf(cat_list') # NestedOf(cat_list) => pc = "agg"
       /\ pc \in {"agg", "report"} => journal_list' = journal_list /\ cat_dict' = cat_dict]_vars

\* A run has passed through all phases: three levels are linked, a comment
\* line lies between the first two categories, two transactions are loaded
\* and nested totals are written.
C19_Witness ==
    /\ pc = "done"
    /\ \E i \in CatIndices : Cat(i).level = 3
    /\ HierarchyComplete
    /\ Cat(1).line_nbr = 3
    /\ Len(journal_list) = 2
    /\ \E i \in CatIndices : Cat(i).nested_total # 0

\* C20: a category file that yields no node is the fatal empty-file error,
\* and so is a journal file that yields no transaction; a run is in the
\* hierarchy pass or later only with a category, and in the aggregation or
\* later only with a category and a transaction.
C20_EmptyFileIsFatal ==
    /\ pc \in {"hier", "journal", "agg", "report", "done"} => Len(cat_list) >= 1
    /\ pc \in {"agg", "report", "done"} => Len(journal_list) >= 1
    /\ error.msg = "Error, empty category file" =>
          pc = "exit" /\ cat_list = <<>> /\ journal_list = <<>> /\ res = CatSkip
    /\ error.msg = "Error, empty journal file" =>
          pc = "exit" /\ Len(cat_list) >= 1 /\ journal_list = <<>> /\ (line_nbr = 0 \/ res = JrnSkip)
    /\ (pc = "exit" /\ cat_list = <<>>) => error.msg # NoError
    /\ (pc = "exit" /\ journal_list = <<>>) => error.msg # NoError

\* A journal file of two comment lines has ended the run.
C20_Witness ==
    /\ pc = "exit"
    /\ error.msg = "Error, empty journal file"
    /\ line_nbr = 2
    /\ Len(cat_list) >= 1

\* The registry and the mapping agree: the codes differ, every code of the
\* mapping is a node's, and a node's code is mapped to the node's index.
RegistryConsistent ==
    /\ \A i, j \in CatIndices : i # j => Cat(i).cat_str # Cat(j).cat_str
    /\ \A i, j \in CatIndices : i < j => Cat(i).line_nbr < Cat(j).line_nbr
    /\ DOMAIN cat_dict = {Cat(i).cat_str : i \in CatIndices}
    /\ Cardinality(DOMAIN cat_dict) = Len(cat_list)
    /\ \A i \in CatIndices : cat_dict[Cat(i).cat_str] = i

\* A step keeps every node where it is, with its code and its line.
RegistryGrows ==
    /\ Len(cat_list') >= Len(cat_list)
    /\ \A i \in 1 .. Len(cat_list) :
          /\ cat_list'[i].cat_str = cat_list[i].cat_str
          /\ cat_list'[i].line_nbr = cat_list[i].line_nbr
    /\ \A code \in DOMAIN cat_dict :
          code \in DOMAIN cat_dict' /\ cat_dict'[code] = cat_dict[code]

\* C22: in every state the nodes of the registry have different codes and
\* are in the order of their lines in the file, the mapping has one entry for
\* each node and no other, and it maps the code of the node at index i to i;
\* no step removes a node or an entry, or moves one.
C22_RegistryAndMappingAgree == []RegistryConsistent /\ [][RegistryGrows]_vars

\* Three nodes are loaded, a line that defines none between the lines of two
\* of them, and the run has gone on to its end.
C22_Witness ==
    /\ pc = "done"
    /\ Len(cat_list) = 3
    /\ \E i \in CatIndices : Cat(i).line_nbr > i + 1

\* How many times the index i is in the children of the node at index p
TimesChildOf(i, p) ==
    Cardinality({k \in 1 .. Len(Cat(p).children) : Cat(p).children[k] = i})

\* C27: once the hierarchy pass is over, a node of level 1 has no parent; a
\* node of a higher level has for parent the node whose code is its own
\* without the last segment, is once in the children of that node and is
\* not in the children of any other node; and the children of every node
\* are in the order they have in the registry.
C27_ParentAndChildrenAgree ==
    HierarchyPassed =>
        /\ \A i \in CatIndices :
              IF Cat(i).level = 1
              THEN /\ Cat(i).parent = NoParent
                   /\ \A p \in CatIndices : TimesChildOf(i, p) = 0
              ELSE /\ Cat(i).parent \in CatIndices
                   /\ Cat(Cat(i).parent).cat_str = WithoutLastSegment(Cat(i).cat_str)
                   /\ \A p \in CatIndices :
                         TimesChildOf(i, p) = IF p = Cat(i).parent THEN 1 ELSE 0
        /\ \A p \in CatIndices :
              /\ \A k \in 1 .. Len(Cat(p).children) : Cat(p).children[k] \in CatIndices
              /\ \A k, n \in 1 .. Len(Cat(p).children) :
                    k < n => Cat(p).children[k] < Cat(p).children[n]

\* A node has two children and one of them a child of its own.
C27_Witness ==
    /\ HierarchyPassed
    /\ \E p, i \in CatIndices :
          /\ Len(Cat(p).children) = 2
          /\ Cat(i).parent = p
          /\ Len(Cat(i).children) = 1

\* The nested fields of a node, and the fields that loading sets
NestedFields(cat) == <<cat.nested_total, cat.nested_monthly>>
DirectFields(cat) == <<cat.total, cat.monthly, cat.journal>>

\* Before the aggregation every nested total and every nested bucket is 0.
NestedZeroBeforeAggregation ==
    pc \in {"cat", "hier", "journal", "exit"} =>
        \A i \in CatIndices :
            /\ Cat(i).nested_total = 0
            /\ \A m \in Months : Cat(i).nested_monthly[m] = 0

\* After the aggregation the nested fields of a node are the sums, over its
\* children, of the child's direct and nested fields, each child once.
RECURSIVE SumOfChildren(_, _)
SumOfChildren(children, m) ==
    IF children = <<>> THEN 0
    ELSE LET child == Cat(Head(children))
         IN  (IF m \in Months THEN child.monthly[m] + child.nested_monthly[m]
              ELSE child.total + child.nested_total)
             + SumOfChildren(Tail(children), m)

FoldedOnceAfterAggregation ==
    pc \in {"report", "done"} =>
        \A i \in CatIndices :
            /\ Cat(i).nested_total = SumOfChildren(Cat(i).children, -1)
            /\ \A m \in Months : Cat(i).nested_monthly[m] = SumOfChildren(Cat(i).children, m)

\* A step of the loading leaves the nested fields of every node as they are.
LoadKeepsNested ==
    pc = "journal" =>
        \A i \in 1 .. Len(cat_list) : NestedFields(cat_list'[i]) = NestedFields(cat_list[i])

\* A step of the aggregation leaves the direct fields of every node as they are.
AggregationKeepsDirect ==
    pc = "agg" =>
        \A i \in 1 .. Len(cat_list) : DirectFields(cat_list'[i]) = DirectFields(cat_list[i])

\* A step of the aggregation that folds a node: the node is of the level of
\* the loop, 2 to 4, it comes in the order of the loops after every node
\* folded before it, its direct and nested fields are added to the nested
\* fields of its parent, and no other node changes.
FoldStep ==
    (pc = "agg" /\ pc' = "agg") =>
        LET i == cidx' - 1
            p == Cat(i).parent
        IN  /\ i \in CatIndices
            /\ Cat(i).level = lvl' /\ lvl' \in 2 .. 4
            /\ lvl' < lvl \/ (lvl' = lvl /\ i >= cidx)
            /\ p \in CatIndices /\ p # i
            /\ cat_list'[p + 1].nested_total
                   = Cat(p).nested_total + Cat(i).total + Cat(i).nested_total
            /\ \A m \in Months :
                   cat_list'[p + 1].nested_monthly[m]
                       = Cat(p).nested_monthly[m] + Cat(i).monthly[m] + Cat(i).nested_monthly[m]
            /\ \A j \in CatIndices : j # p => cat_list'[j + 1] = Cat(j)

\* The step that ends the aggregation: no node of level 2 to 4 is left to fold.
LastAggregationStep ==
    (pc = "agg" /\ pc' # "agg") =>
        /\ cat_list' = cat_list
        /\ \A j \in CatIndices :
              Cat(j).level \in 2 .. 4 =>
                  Cat(j).level > lvl \/ (Cat(j).level = lvl /\ j < cidx)

\* C28: the nested totals and nested monthly buckets are 0 in every state
\* before the aggregation; loading a transaction changes no nested field;
\* the aggregation changes no direct total, no direct monthly bucket and no
\* transaction list; and the aggregation folds every node of level 2 to 4
\* into its parent once, and no node of level 1.
C28_AccumulatorLifecycle ==
    /\ [](NestedZeroBeforeAggregation /\ FoldedOnceAfterAggregation)
    /\ [][LoadKeepsNested /\ AggregationKeepsDirect /\ FoldStep /\ LastAggregationStep]_vars

\* A transaction of a node of level 4 has been folded up to level 1.
C28_Witness ==
    /\ pc = "report"
    /\ \E i, j \in CatIndices :
          /\ Cat(i).level = 4 /\ Cat(i).total # 0
          /\ Cat(j).level = 1 /\ Cat(j).nested_total = Cat(i).total /\ Cat(j).total = 0

\* The sequences that have every element of the set S once
PermsOf(S) ==
    {f \in [1 .. Cardinality(S) -> S] : \A k, n \in 1 .. Cardinality(S) : k # n => f[k] # f[n]}

\* The nodes of a level, and the orders in which the aggregation may fold:
\* those of level 4 in any order, then level 3, then level 2
LevelNodes(level) == {i \in CatIndices : Cat(i).level = level}

FoldOrders ==
    {p4 \o p3 \o p2 : p4 \in PermsOf(LevelNodes(4)), p3 \in PermsOf(LevelNodes(3)),
                      p2 \in PermsOf(LevelNodes(2))}

\* cats with the nested fields it had before the aggregation
Unfolded(cats, zero) ==
    [i \in 1 .. Len(cats) |->
        [cats[i] EXCEPT !.nested_total = zero, !.nested_monthly = [m \in Months |-> zero]]]

RECURSIVE FoldInOrder(_, _)
FoldInOrder(cats, order) ==
    IF order = <<>> THEN cats ELSE FoldInOrder(Fold(cats, Head(order)), Tail(order))

RECURSIVE FloatFoldInOrder(_, _)
FloatFoldInOrder(cats, order) ==
    IF order = <<>> THEN cats ELSE FloatFoldInOrder(FloatFold(cats, Head(order)), Tail(order))

\* The same number: 0.0 and -0.0 are equal
SameFloat(x, y) == x.mag = y.mag /\ (x.neg = y.neg \/ x.mag = <<>>)

\* C29: the nested totals and nested monthly values that the aggregation
\* leaves are those that it leaves when the nodes of one level are folded in
\* any other order, the levels in the order 4, 3, 2.
C29_FoldOrderIsIrrelevant ==
    pc = "report" =>
        \A order \in FoldOrders :
            LET other == FloatFoldInOrder(Unfolded(cat_list, FloatZero), order)
            IN  \A i \in 1 .. Len(cat_list) :
                    /\ SameFloat(other[i].nested_total, cat_list[i].nested_total)
                    /\ \A m \in Months :
                          SameFloat(other[i].nested_monthly[m], cat_list[i].nested_monthly[m])

\* C29 holds of the amounts as exact numbers of cents.
C29_FoldOrderIsIrrelevantInCents ==
    pc = "report" =>
        \A order \in FoldOrders :
            LET other == FoldInOrder(Unfolded(cat_list, 0), order)
            IN  \A i \in 1 .. Len(cat_list) :
                    /\ other[i].nested_total = cat_list[i].nested_total
                    /\ other[i].nested_monthly = cat_list[i].nested_monthly

\* Two nodes of one level, both with transactions, have been folded.
C29_WitnessInCents ==
    /\ pc = "report"
    /\ \E i, j \in CatIndices :
          /\ i # j
          /\ Cat(i).level = 2 /\ Cat(j).level = 2
          /\ Cat(i).total # 0 /\ Cat(j).total # 0

\* The sum of the buckets 0 to m of a monthly list, exact and in floats
RECURSIVE SumOfMonths(_, _)
SumOfMonths(monthly, m) ==
    IF m < 0 THEN 0 ELSE SumOfMonths(monthly, m - 1) + monthly[m]

RECURSIVE FloatSumOfMonths(_, _)
FloatSumOfMonths(monthly, m) ==
    IF m < 0 THEN FloatZero ELSE FloatSum(FloatSumOfMonths(monthly, m - 1), monthly[m])

\* The sum of the amounts of the transactions of a transaction list, in the
\* order of the list, exact and in floats
RECURSIVE SumOfAmounts(_)
SumOfAmounts(journal) ==
    IF journal = <<>> THEN 0
    ELSE SumOfAmounts(SubSeq(journal, 1, Len(journal) - 1)) + Jrn(journal[Len(journal)]).amt

RECURSIVE FloatSumOfAmounts(_)
FloatSumOfAmounts(journal) ==
    IF journal = <<>> THEN FloatZero
    ELSE FloatSum(FloatSumOfAmounts(SubSeq(journal, 1, Len(journal) - 1)),
                  Jrn(journal[Len(journal)]).amt)

\* C34: while the journal is loaded and after, the total of every category
\* is the sum of its 12 monthly values and the sum of the amounts of the
\* transactions of its list; after the aggregation the nested total of
\* every category is the sum of its 12 nested monthly values.
C34_TotalsAreSums ==
    /\ pc \in {"journal", "agg", "report"} =>
          \A i \in CatIndices :
              /\ SameFloat(Cat(i).total, FloatSumOfMonths(Cat(i).monthly, 11))
              /\ SameFloat(Cat(i).total, FloatSumOfAmounts(Cat(i).journal))
    /\ pc = "report" =>
          \A i \in CatIndices :
              SameFloat(Cat(i).nested_total, FloatSumOfMonths(Cat(i).nested_monthly, 11))

\* C34 holds of the amounts as exact numbers of cents.
C34_TotalsAreSumsInCents ==
    /\ pc \in {"journal", "agg", "report", "done"} =>
          \A i \in CatIndices :
              /\ Cat(i).total = SumOfMonths(Cat(i).monthly, 11)
              /\ Cat(i).total = SumOfAmounts(Cat(i).journal)
    /\ pc \in {"report", "done"} =>
          \A i \in CatIndices :
              Cat(i).nested_total = SumOfMonths(Cat(i).nested_monthly, 11)

\* A category with transactions of two months has been folded into its parent.
C34_WitnessInCents ==
    /\ pc = "report"
    /\ \E i \in CatIndices :
          /\ Cat(i).nested_total # 0
          /\ Cardinality({m \in Months : Cat(i).nested_monthly[m] # 0}) >= 2

\* The month index 0 - 11 of a transaction
MonthIndex(jobj) == IntOf(Slice(jobj.date, 0, 2)) - 1

\* What the transactions 0 to n - 1 of journal_list amount to, all of them
\* (m = -1) or those of the month m
RECURSIVE SumOfJournal(_, _)
SumOfJournal(n, m) ==
    IF n = 0 THEN 0
    ELSE SumOfJournal(n - 1, m)
            + (IF m = -1 \/ MonthIndex(Jrn(n - 1)) = m THEN Jrn(n - 1).amt ELSE 0)

\* What the categories 0 to n - 1 of level 1 come to, total and nested total
\* (m = -1) or those of the month m
RECURSIVE SumOfRoots(_, _)
SumOfRoots(n, m) ==
    IF n = 0 THEN 0
    ELSE SumOfRoots(n - 1, m)
            + (IF Cat(n - 1).level # 1 THEN 0
               ELSE IF m = -1 THEN Cat(n - 1).total + Cat(n - 1).nested_total
               ELSE Cat(n - 1).monthly[m] + Cat(n - 1).nested_monthly[m])

C36_NeverDividesByZero ==
    /\ error.msg # ZeroDivisionError
    /\ pc = "done" =>
          ((\E i \in CatIndices : Cat(i).total + Cat(i).nested_total # 0) => months >= 1)

\* An average has been computed for a category, over one month.
C36_Witness ==
    /\ pc = "done"
    /\ months = 1
    /\ \E i \in CatIndices : Cat(i).total + Cat(i).nested_total # 0

\* In float arithmetic the run of C34's transactions ends in the division by 0.
FloatRunDividesByZero ==
    /\ pc = "exit"
    /\ error.msg = ZeroDivisionError
    /\ \A m \in Months : ~todo[m]

\* The places where the transaction lists of the categories hold the
\* journal_list index j
PlacesOf(j) ==
    {place \in CatIndices \X (1 .. Len(journal_list)) :
        /\ place[2] <= Len(Cat(place[1]).journal)
        /\ Cat(place[1]).journal[place[2]] = j}

\* The transaction lists of the categories partition the journal_list
\* indices, each index in the list of the category its transaction records.
ListsPartitionJournal ==
    /\ \A i \in CatIndices :
          /\ Len(Cat(i).journal) <= Len(journal_list)
          /\ \A k \in 1 .. Len(Cat(i).journal) :
                Cat(i).journal[k] \in 0 .. Len(journal_list) - 1
    /\ \A j \in 0 .. Len(journal_list) - 1 :
          /\ Cardinality(PlacesOf(j)) = 1
          /\ \A place \in PlacesOf(j) : place[1] = Jrn(j).cat_idx
          /\ Jrn(j).cat_code \in DOMAIN cat_dict
          /\ cat_dict[Jrn(j).cat_code] = Jrn(j).cat_idx
          /\ MonthIndex(Jrn(j)) \in 0 .. 11

\* The month index of a transaction just loaded is the month of its line
\* minus 1, and its amount went to that month.
LoadedInItsMonth ==
    (pc = "journal" /\ journal_list' # journal_list) =>
        LET j == Len(journal_list)
            c == journal_list'[j + 1].cat_idx
            m == MonthIndex(journal_list'[j + 1])
        IN  /\ m = MonthOf(line') - 1
            /\ cat_list'[c + 1].monthly[m] = cat_list[c + 1].monthly[m] + journal_list'[j + 1].amt

\* C37: after the loading of any prefix of the journal, every loaded
\* transaction index is in exactly one category's transaction list, once,
\* and that category is the one the transaction records, the index its code
\* maps to; the month index of the transaction is its parsed month minus 1
\* and lies in 0 to 11.
C37_ListsPartitionJournal == []ListsPartitionJournal /\ [][LoadedInItsMonth]_vars

\* Two transactions are in the list of one category, in the order loaded.
C37_Witness ==
    /\ pc = "agg"
    /\ Len(journal_list) = 2
    /\ \E i \in CatIndices : Cat(i).journal = <<0, 1>>

\* The node k parents above node i; NoParent when there is none
RECURSIVE Up(_, _)
Up(i, k) ==
    IF k = 0 \/ i = NoParent THEN i ELSE Up(Cat(i).parent, k - 1)

\* The nodes that have node a among their parents' parents
Below(a) == {d \in CatIndices : \E k \in 1 .. MaxLevel - 1 : Up(d, k) = a}

\* Every node's parent is one level above it, and a node of level 1 has none.
ParentIsOneLevelUp ==
    \A i \in CatIndices :
        IF Cat(i).level = 1 THEN Cat(i).parent = NoParent
        ELSE /\ Cat(i).parent \in CatIndices
             /\ Cat(Cat(i).parent).level = Cat(i).level - 1

\* The parents form a forest: from a node of level L, L - 1 parents up is a
\* node of level 1, which has no parent, and no node is below itself.
ParentsFormForest ==
    \A i \in CatIndices :
        /\ Up(i, Cat(i).level - 1) \in CatIndices
        /\ Cat(Up(i, Cat(i).level - 1)).level = 1
        /\ Up(i, Cat(i).level) = NoParent
        /\ i \notin Below(i)

\* When a node is folded, all the nodes below it have been folded: they are
\* of levels whose loops are over, and the node's nested total is what they
\* all hold themselves.
FoldedAfterAllBelow ==
    (pc = "agg" /\ pc' = "agg") =>
        LET c == cidx' - 1
        IN  /\ Cat(c).level = lvl'
            /\ \A d \in Below(c) : Cat(d).level > lvl'
            /\ Cat(c).nested_total = SumTotal(Below(c))
            /\ \A m \in Months : Cat(c).nested_monthly[m] = SumMonthly(Below(c), m)

\* C38: after a successful hierarchy pass every node's parent is of the level
\* one less than the node's, so that the parents form a forest with the nodes
\* of level 1 as roots, and when the aggregation folds a node, all the nodes
\* below it have been folded already.
C38_ForestFoldedBottomUp ==
    /\ [](pc \in {"journal", "agg", "report", "done"} => (ParentIsOneLevelUp /\ ParentsFormForest))
    /\ [][FoldedAfterAllBelow]_vars

\* A node of level 2 is folded that has a node of level 4 below it, whose
\* transaction it holds in its nested total.
C38_Witness ==
    /\ pc = "agg"
    /\ lvl = 2
    /\ cidx > 0
    /\ Cat(cidx - 1).level = 2
    /\ Cat(cidx - 1).nested_total # 0
    /\ \E d \in Below(cidx - 1) : Cat(d).level = 4 /\ Cat(d).total # 0

\* The day a date text MM/DD/YYYY names, as one number that grows with time.
DayNumber(date) ==
    IntOf(Slice(date, 6, 10)) * 10000 + IntOf(Slice(date, 0, 2)) * 100 + IntOf(Slice(date, 3, 5))

\* Where the journal_list index obj is in list
PlaceOf(list, obj) == CHOOSE k \in 1 .. Len(list) : list[k] = obj

\* list is other in another order
IsPermutation(list, other) ==
    /\ Len(list) = Len(other)
    /\ \A k \in 1 .. Len(other) :
          Cardinality({n \in 1 .. Len(list) : list[n] = other[k]})
              = Cardinality({n \in 1 .. Len(other) : other[n] = other[k]})

\* C21: the step of the report that sorts leaves every category's transaction
\* list in date order, earlier dates first, with the transactions it had
\* when loaded and no others, and two transactions of one date in the order
\* they had when loaded, which is the order of the journal file.
C21_SortIsStableByDate ==
    [][pc = "report" =>
         \A i \in 1 .. Len(cat_list) :
           LET loaded == cat_list[i].journal
               sorted == cat_list'[i].journal
           IN  /\ IsPermutation(sorted, loaded)
               /\ \A k, n \in 1 .. Len(sorted) :
                     k < n => DayNumber(Jrn(sorted[k]).date) <= DayNumber(Jrn(sorted[n]).date)
               /\ \A k, n \in 1 .. Len(loaded) :
                     (k < n /\ Jrn(loaded[k]).date = Jrn(loaded[n]).date)
                         => PlaceOf(sorted, loaded[k]) < PlaceOf(sorted, loaded[n])
               /\ \A k, n \in 1 .. Len(loaded) :
                     k < n => Jrn(loaded[k]).line_nbr < Jrn(loaded[n]).line_nbr]_vars

\* A category's two transactions were loaded later date first, and sorted.
C21_Witness ==
    /\ pc = "done"
    /\ \E i \in 1 .. Len(cat_list) :
          /\ cat_list[i].journal = <<1, 0>>
          /\ DayNumber(Jrn(0).date) > DayNumber(Jrn(1).date)

\* A category's two transactions of one date, sorted.
C21_WitnessSameDate ==
    /\ pc = "done"
    /\ \E i \in 1 .. Len(cat_list) :
          /\ cat_list[i].journal = <<0, 1>>
          /\ Jrn(0).date = Jrn(1).date
          /\ Jrn(0).descr # Jrn(1).descr

-----------------------------------------------------------------------------
(* Properties of the category parser *)

\* The text between the leading spaces and the next space
CodeField(text) ==
    LET start == LeadSpaces(text) + 1
        stop == IndexFrom(text, SP, start)
    IN  IF stop = 0 THEN <<>> ELSE SubSeq(text, start, stop - 1)

\* A category-definition line: leading spaces, a code field that does not
\* open a comment, spaces, a description, and the only newline at the end.
IsDefinitionLine(text) ==
    LET code == CodeField(text)
        rest == SubSeq(text, LeadSpaces(text) + Len(code) + 1, Len(text))
        descr == SubSeq(rest, LeadSpaces(rest) + 1, Len(rest))
    IN  /\ code # <<>>
        /\ code[1] # "#"
        /\ AllIn(code, {c \in {"0", "1", "9", ".", SUP2, "x"} : TRUE})
        /\ descr # <<>>
        /\ descr[1] \notin {"#", NL}
        /\ IndexFrom(text, NL, 1) = Len(text)

\* The segments of a code: the texts between its "."s
RECURSIVE Segments(_)
Segments(code) ==
    LET dot == IndexFrom(code, ".", 1)
    IN  IF dot = 0 THEN <<code>>
        ELSE <<SubSeq(code, 1, dot - 1)>> \o Segments(SubSeq(code, dot + 1, Len(code)))

NonZeroDigits == {"1", "2", "3", "4", "5", "6", "7", "8", "9"}

\* A code as the file format defines it: a digit 1-9, then up to three
\* segments 1 to 99 without a leading zero.
ValidCode(code) ==
    LET segs == Segments(code)
    IN  /\ Len(segs) \in 1 .. 4
        /\ Len(segs[1]) = 1
        /\ segs[1][1] \in NonZeroDigits
        /\ \A k \in 2 .. Len(segs) :
              /\ Len(segs[k]) \in 1 .. 2
              /\ segs[k][1] \in NonZeroDigits
              /\ AllIn(segs[k], NonZeroDigits \cup {"0"})

CodeAcceptedIffValid(text) ==
    IF ValidCode(CodeField(text))
    THEN res.error_msg = NoError /\ res.cat_code = CodeField(text)
    ELSE res.error_msg \in CodeFormatErrors

\* C6: a category-definition line is accepted, with its code field as the
\* code, exactly when the code is well-formed; any other code is a format error.
C6_CodeAcceptedIffValid ==
    (pc = "parsed" /\ IsDefinitionLine(line)) => CodeAcceptedIffValid(line)

\* C6 holds of the lines whose code field has no digit outside 0-9.
C6_CodeAcceptedIffValidDecimal ==
    (pc = "parsed" /\ IsDefinitionLine(line) /\ AllIn(CodeField(line), {"0", "1", "9", ".", "x"}))
        => CodeAcceptedIffValid(line)

\* How many "." a code has
DotCount(code) == Cardinality({k \in 1 .. Len(code) : code[k] = "."})

\* C7: for every line the category parser accepts, the level is the number
\* of dot-separated segments of the code, and lies in 1 to 4.
C7_LevelIsSegmentCount ==
    (pc = "parsed" /\ res.error_msg = NoError /\ res.cat_code # <<>>) =>
        /\ res.level = DotCount(res.cat_code) + 1
        /\ res.level = Len(Segments(res.cat_code))
        /\ res.level \in 1 .. 4

\* A code of four segments has been accepted.
C7_Witness ==
    /\ pc = "parsed"
    /\ res.error_msg = NoError
    /\ res.cat_code = <<"1", ".", "1", "0", ".", "1", ".", "1">>
    /\ res.level = 4

\* What follows the code field of a line, and that without its leading spaces
AfterCode(text) == SubSeq(text, LeadSpaces(text) + Len(CodeField(text)) + 1, Len(text))
AfterCodeSpaces(text) == SubSeq(AfterCode(text), LeadSpaces(AfterCode(text)) + 1, Len(AfterCode(text)))

\* A line of a file has no newline but at its end.
IsFileLine(text) == IndexFrom(text, NL, 1) \in {0, Len(text)}

\* A well-formed code, spaces, and then "#" or the newline
HasNoDescription(text) ==
    /\ IsFileLine(text)
    /\ ValidCode(CodeField(text))
    /\ AfterCodeSpaces(text) # <<>>
    /\ AfterCodeSpaces(text)[1] \in {"#", NL}

MissingDescriptionMsg == "Error, invalid category file format, missing description"

\* C23: a line of a well-formed code, spaces, and then "#" or the newline is
\* the missing-description format error; and a line that is accepted as a
\* category has a description that is not empty.
C23_DescriptionIsMandatory ==
    (pc = "parsed" /\ IsFileLine(line)) =>
        /\ HasNoDescription(line) => res.error_msg = MissingDescriptionMsg
        /\ (res.error_msg = NoError /\ res.cat_code # <<>>) => res.descr # <<>>

\* C23 holds of the lines that have no tab.
C23_DescriptionIsMandatoryNoTab ==
    (pc = "parsed" /\ IsFileLine(line) /\ AllIn(line, {c \in {"0", "1", "9", ".", SUP2, "x", SP, "#", NL, "A"} : TRUE})) =>
        /\ HasNoDescription(line) => res.error_msg = MissingDescriptionMsg
        /\ (res.error_msg = NoError /\ res.cat_code # <<>>) => res.descr # <<>>

\* A line without description has been refused.
C23_WitnessNoTab ==
    /\ pc = "parsed"
    /\ line = <<"1", ".", "2", SP, SP, "#", NL>>
    /\ res.error_msg = MissingDescriptionMsg

\* s without the spaces at its end
RECURSIVE StripSpaces(_)
StripSpaces(s) ==
    IF s # <<>> /\ s[Len(s)] = SP THEN StripSpaces(SubSeq(s, 1, Len(s) - 1)) ELSE s

\* The first position where text has a character of S; 0 when none
FirstOf(text, S) ==
    IF \E k \in 1 .. Len(text) : text[k] \in S
    THEN CHOOSE k \in 1 .. Len(text) :
            text[k] \in S /\ \A n \in 1 .. k - 1 : text[n] \notin S
    ELSE 0

\* The description of a line: from the first character after the code that
\* is no space up to the first "#" or newline, without the spaces at its end
DescrField(text) ==
    LET rest == AfterCodeSpaces(text)
    IN  StripSpaces(SubSeq(rest, 1, FirstOf(rest, {"#", NL}) - 1))

\* The comment of a line: from the first "#" before the newline up to the
\* newline, without the spaces at its end; empty when there is none
CommentField(text) ==
    LET rest == AfterCodeSpaces(text)
        stop == FirstOf(rest, {"#", NL})
    IN  IF stop = 0 \/ rest[stop] = NL THEN <<>>
        ELSE StripSpaces(SubSeq(rest, stop, IndexFrom(rest, NL, stop) - 1))

FieldsAreOfTheLine ==
    /\ res.cat_code = CodeField(line)
    /\ res.descr = DescrField(line)
    /\ res.comment = CommentField(line)

\* C31: for every accepted category line, the code is the code field, the
\* description is the text from its first character that is no space up to
\* the first "#" or the newline, without its trailing spaces, and the comment
\* is empty when the line has no "#", else the text from that "#" to the
\* newline without its trailing spaces.
C31_FieldsAreOfTheLine ==
    (pc = "parsed" /\ res.error_msg = NoError /\ res.cat_code # <<>>) => FieldsAreOfTheLine

\* C31 holds of the lines that have no tab.
C31_FieldsAreOfTheLineNoTab ==
    (pc = "parsed" /\ res.error_msg = NoError /\ res.cat_code # <<>>
        /\ \A k \in 1 .. Len(line) : line[k] # TAB) => FieldsAreOfTheLine

\* A line with a comment has been accepted, and one with spaces after the
\* description.
C31_WitnessNoTab ==
    /\ pc = "parsed"
    /\ line = <<"1", ".", "2", SP, "A", "#", NL>>
    /\ res = CatRet(NoError, <<"1", ".", "2">>, <<"A">>, <<"#">>, 2)

C31_WitnessTrailingSpace ==
    /\ pc = "parsed"
    /\ line = <<"1", ".", "2", SP, "A", SP, NL>>
    /\ res = CatRet(NoError, <<"1", ".", "2">>, <<"A">>, <<>>, 2)

-----------------------------------------------------------------------------
(* Properties of the journal parser *)

MonthText(text) ==
    LET start == LeadSpaces(text) + 1
    IN  SubSeq(text, start, IndexFrom(text, "/", start) - 1)

DayText(text) ==
    LET slash == IndexFrom(text, "/", 1)
    IN  SubSeq(text, slash + 1, IndexFrom(text, ",", slash) - 1)

\* A line whose date field is digits, "/", digits, ",", and whose other
\* fields are good.
IsDateLine(text) ==
    LET start == LeadSpaces(text) + 1
        slash == IndexFrom(text, "/", start)
        comma == IndexFrom(text, ",", start)
    IN  /\ slash > start
        /\ comma > slash + 1
        /\ AllIn(MonthText(text), DecimalDigits)
        /\ AllIn(DayText(text), DecimalDigits)
        /\ SubSeq(text, comma, Len(text)) = <<",", SP, "P", ",", SP, "1", ".", "0", "0", ",", SP, "t", ",", SP, "1", NL>>

LeapYear(year) == (year % 4 = 0 /\ year % 100 # 0) \/ year % 400 = 0

DaysInMonth(month, year) ==
    CASE month \in {4, 6, 9, 11} -> 30
      [] month = 2 -> IF LeapYear(year) THEN 29 ELSE 28
      [] OTHER -> 31

ValidDate(mt, dt, year) ==
    /\ Len(mt) \in 1 .. 2
    /\ Len(dt) \in 1 .. 2
    /\ IntOf(mt) \in 1 .. 12
    /\ IntOf(dt) >= 1
    /\ IntOf(dt) <= DaysInMonth(IntOf(mt), year)

\* C8: a date field m/d is accepted exactly when the month is 1 to 12 and
\* the day is 1 to the days of that month in the processing year, each
\* written with one or two digits; any other is a format error of the date.
C8_DateAcceptedIffValid ==
    (pc = "parsed" /\ IsDateLine(line)) =>
        IF ValidDate(MonthText(line), DayText(line), working_year)
        THEN res.error_msg = NoError /\ res.jdate # <<>>
        ELSE res.error_msg \in DateErrors

\* February 29 has been accepted in the leap year 2000 (a century).
C8_Witness ==
    /\ pc = "parsed"
    /\ IsDateLine(line)
    /\ working_year = 2000
    /\ MonthText(line) = <<"2">>
    /\ DayText(line) = <<"2", "9">>
    /\ res.error_msg = NoError

\* C9: the date of an accepted line is the 10 characters MM/DD/YYYY: month
\* and day as written, zero-padded to two digits, and the processing year.
C9_DateIsCanonical ==
    (pc = "parsed" /\ res.error_msg = NoError /\ res.jcat_code # <<>>) =>
        /\ Len(res.jdate) = 10
        /\ res.jdate[3] = "/"
        /\ res.jdate[6] = "/"
        /\ \A k \in {1, 2, 4, 5, 7, 8, 9, 10} : res.jdate[k] \in DecimalDigits
        /\ IntOf(SubSeq(res.jdate, 1, 2)) = IntOf(MonthText(line))
        /\ IntOf(SubSeq(res.jdate, 4, 5)) = IntOf(DayText(line))
        /\ IntOf(SubSeq(res.jdate, 7, 10)) = working_year

\* 3/9 of 2015 has become 03/09/2015.
C9_Witness ==
    /\ pc = "parsed"
    /\ working_year = 2015
    /\ MonthText(line) = <<"3">>
    /\ DayText(line) = <<"9">>
    /\ res.jdate = <<"0", "3", "/", "0", "9", "/", "2", "0", "1", "5">>

\* The amount field of a line whose other fields are good; <<>> otherwise.
AmountField(text) ==
    LET comma == IndexFrom(text, ",", 9)
    IN  IF /\ Len(text) > 9
           /\ SubSeq(text, 1, 8) = <<"3", "/", "9", ",", SP, "P", ",", SP>>
           /\ comma > 9
           /\ SubSeq(text, comma, Len(text)) = <<",", SP, "t", ",", SP, "1", ".", "1", NL>>
        THEN SubSeq(text, 9, comma - 1)
        ELSE <<>>

Unsigned(amt) == IF amt # <<>> /\ amt[1] = "-" THEN Tail(amt) ELSE amt

\* An optional "-", at least one digit, ".", exactly two digits
ValidAmount(amt) ==
    LET body == Unsigned(amt)
        dot == IndexFrom(body, ".", 1)
    IN  /\ dot >= 2
        /\ Len(body) = dot + 2
        /\ AllIn(SubSeq(body, 1, dot - 1), DecimalDigits)
        /\ AllIn(SubSeq(body, dot + 1, Len(body)), DecimalDigits)

\* sign x (dollars + cents/100), in cents
AmountValue(amt) ==
    LET body == Unsigned(amt)
        dot == IndexFrom(body, ".", 1)
        cents == IntOf(SubSeq(body, 1, dot - 1)) * 100 + IntOf(SubSeq(body, dot + 1, Len(body)))
    IN  IF amt[1] = "-" THEN 0 - cents ELSE cents

AmountAcceptedIffValid(amt) ==
    IF ValidAmount(amt)
    THEN res.error_msg = NoError /\ res.jamt = AmountValue(amt)
    ELSE res.error_msg = "Error, invalid amount in journal file"

\* C10: an amount field is accepted exactly when it is an optional "-", at
\* least one digit, "." and exactly two digits, and is then stored as
\* sign x (dollars + cents/100); any other field is the invalid-amount error.
C10_AmountAcceptedIffValid ==
    (pc = "parsed" /\ AmountField(line) # <<>>) => AmountAcceptedIffValid(AmountField(line))

\* C10 holds of the amount fields that have no digit outside 0-9.
C10_AmountAcceptedIffValidDecimal ==
    (pc = "parsed" /\ AmountField(line) # <<>> /\ AllIn(AmountField(line), {"-", "0", "7", ".", "x"}))
        => AmountAcceptedIffValid(AmountField(line))

-----------------------------------------------------------------------------
(* Properties of the amount in float arithmetic *)

\* The amount as the line has it: the field without its leading spaces and
\* the comma that ends it.
WrittenAmount(text) == SubSeq(text, LeadSpaces(text) + 1, Len(text) - 1)

\* The text the report printed for the stored amount.
Printed == error.cat_code

\* The dollars of the amount field are below 2^bits.
DollarsBelow(text, bits) ==
    LET amt == Unsigned(WrittenAmount(text))
        dollars == SubSeq(amt, 1, Len(amt) - 3)
    IN  \E d \in DollarTexts :
           /\ d = dollars
           /\ d \in { <<"0">>, <<"7">>, <<"2", "9", "2">>, <<"1", "2", "7", "5">> }
                  \cup { BigText(ShiftLeft(<<1>>, k)) : k \in MinDollarBits .. bits - 1 }
                  \cup { BigText(BigSub(ShiftLeft(<<1>>, k), <<1>>)) : k \in MinDollarBits .. bits }

\* C11: for every accepted amount, the stored amount formatted with two
\* decimal places is exactly the amount written in the line, for every
\* dollar and cents value.
C11_AmountRoundTrips ==
    pc = "printed" => Printed = WrittenAmount(line)

\* C11 holds of the amounts below 2^46 dollars.
C11_AmountRoundTripsBelow46Bits ==
    (pc = "printed" /\ DollarsBelow(line, 46)) => Printed = WrittenAmount(line)

\* What follows the category code of a line of TrailInputs, up to its
\* newline; <<>> for any other line.
Trail(text) ==
    IF /\ Len(text) > 20
       /\ SubSeq(text, 1, 20) =
             <<"3", "/", "9", ",", SP, "P", ",", SP, "1", ".", "0", "0", ",", SP, "t", ",", SP, "1", ".", "1">>
    THEN SubSeq(text, 21, Len(text) - 1)
    ELSE <<>>

\* C17: no comment can end a transaction line: a journal line that has a
\* "#" comment, or any character but spaces, after its category code is not
\* accepted as a transaction but is a format error.
C17_NoTextAfterCategory ==
    (pc = "parsed" /\ ~AllIn(Trail(line), {SP})) => res.error_msg \in CategoryFormatErrors

\* C17 holds where the text follows the category code without a space between.
C17_NoTextRightAfterCategory ==
    (pc = "parsed" /\ Trail(line) # <<>> /\ Trail(line)[1] # SP) =>
        res.error_msg \in CategoryFormatErrors

\* The line without its leading spaces
Body(text) == Slice(text, LeadSpaces(text), Len(text))

\* C30: right after the first digit 1-9 of a line, the category parser takes
\* only "." and space: any other character there, a second digit and a
\* newline among them, is the format error, as is the end of the line; and
\* an accepted line has a code of level 1 exactly when a space follows the
\* digit, the code being that one digit.
C30_Level1TakesDotOrSpace ==
    (pc = "parsed" /\ Body(line) # <<>> /\ Body(line)[1] \in NonZeroDigits) =>
        LET body == Body(line)
        IN  /\ (Len(body) = 1 \/ body[2] \notin {".", SP})
                => res = CatErr("Error, invalid category file format")
            /\ res.error_msg = NoError
                => /\ body[2] \in {".", SP}
                   /\ res.level = 1 <=> body[2] = SP
                   /\ res.level = 1 => res.cat_code = <<body[1]>>

\* The line "11 A" has been refused.
C30_Witness ==
    /\ pc = "parsed"
    /\ line = <<"1", "1", SP, "A", NL>>
    /\ res = CatErr("Error, invalid category file format")

\* A digit directly followed by the newline has been refused, and a line with
\* a space after the digit accepted at level 1.
C30_WitnessNewline ==
    /\ pc = "parsed"
    /\ line = <<"1", NL>>
    /\ res = CatErr("Error, invalid category file format")

C30_WitnessAccepted ==
    /\ pc = "parsed"
    /\ line = <<"1", SP, "A", NL>>
    /\ res = CatRet(NoError, <<"1">>, <<"A">>, <<>>, 1)

-----------------------------------------------------------------------------
(* Properties of modstat's line counter *)

\* How many newline characters a text has
Newlines(text) == Cardinality({k \in 1 .. Len(text) : text[k] = NL})

\* C24: whatever the source read so far, every newline of it is counted in
\* one of the three counters and in one only: the counters add up to the
\* number of newline characters read.
C24_EveryNewlineIsCounted ==
    pc = "count" =>
        cl.blank_lines + cl.comment_lines + cl.executable_lines = Newlines(source)

\* Where Python's own lexical analysis is after a text: in code, in a
\* comment, after one quote q or two, in a string of one quote ("s1") or of
\* three ("s3", after k quotes that may close it), after a backslash that
\* joins two lines of code; "error" when the text cannot be analysed.  esc
\* says that a backslash escapes the next character of the string.
LexStart == [mode |-> "code", q |-> "", esc |-> FALSE, k |-> 0]
LexTo(mode, q, esc, k) == [mode |-> mode, q |-> q, esc |-> esc, k |-> k]

LexCode(char) ==
    IF char = "#" THEN LexTo("comment", "", FALSE, 0)
    ELSE IF char \in QUOTES THEN LexTo("q1", char, FALSE, 0)
    ELSE IF char = BACKSLASH THEN LexTo("cont", "", FALSE, 0)
    ELSE LexStart

LexChar(lx, char) ==
    CASE lx.mode = "code" -> LexCode(char)
      [] lx.mode = "comment" -> IF char = NL THEN LexStart ELSE lx
      [] lx.mode = "cont" -> IF char = NL THEN LexStart ELSE LexTo("error", "", FALSE, 0)
      [] lx.mode = "q1" ->
           IF char = lx.q THEN LexTo("q2", lx.q, FALSE, 0)
           ELSE IF char = NL THEN LexTo("error", "", FALSE, 0)
           ELSE LexTo("s1", lx.q, char = BACKSLASH, 0)
      [] lx.mode = "q2" ->
           IF char = lx.q THEN LexTo("s3", lx.q, FALSE, 0)
           ELSE LexCode(char)  \* the string was empty
      [] lx.mode = "s1" ->
           IF lx.esc THEN LexTo("s1", lx.q, FALSE, 0)
           ELSE IF char = BACKSLASH THEN LexTo("s1", lx.q, TRUE, 0)
           ELSE IF char = lx.q THEN LexStart
           ELSE IF char = NL THEN LexTo("error", "", FALSE, 0)
           ELSE lx
      [] lx.mode = "s3" ->
           IF lx.esc THEN LexTo("s3", lx.q, FALSE, 0)
           ELSE IF char = BACKSLASH THEN LexTo("s3", lx.q, TRUE, 0)
           ELSE IF char = lx.q
                THEN IF lx.k = 2 THEN LexStart ELSE LexTo("s3", lx.q, FALSE, lx.k + 1)
           ELSE LexTo("s3", lx.q, FALSE, 0)
      [] OTHER -> lx

RECURSIVE LexLoop(_, _)
LexLoop(lx, text) ==
    IF text = <<>> THEN lx ELSE LexLoop(LexChar(lx, Head(text)), Tail(text))

Lex(text) == LexLoop(LexStart, text)

\* The length of text up to and with its last newline: where its last line starts
RECURSIVE LastLineStart(_)
LastLineStart(text) ==
    IF text = <<>> \/ text[Len(text)] = NL THEN Len(text)
    ELSE LastLineStart(SubSeq(text, 1, Len(text) - 1))

LastLine(text) == SubSeq(text, LastLineStart(text) + 1, Len(text))

\* The last line of text, from its first character to its last, is inside
\* a string of three quotes.
LastLineInTripleQuotes(text) ==
    \A n \in LastLineStart(text) .. Len(text) : Lex(SubSeq(text, 1, n)).mode = "s3"

\* A line that looks blank, or like a comment-only line
LooksBlankOrComment(text) ==
    LET first == SubSeq(text, LeadSpaces(text) + 1, Len(text))
    IN  first = <<>> \/ first[1] = "#"

\* The states of count_lines that are inside a string
StringStates == {PS_START_STRING, PS_EXEC_STRING, PS_END_STRING}

\* The step counts a line as blank or as a comment-only line
CountsBlankOrComment ==
    cl'.blank_lines # cl.blank_lines \/ cl'.comment_lines # cl.comment_lines

\* What C25 says of the step that reads the next character of a source
\* Python can analyse.
StringsAreObeyed ==
    LET char == source'[Len(source')]
    IN  (pc = "count" /\ Lex(source').mode # "error") =>
          /\ (char = NL /\ LastLineInTripleQuotes(source) /\ LooksBlankOrComment(LastLine(source)))
                => /\ cl'.executable_lines = cl.executable_lines + 1
                   /\ ~CountsBlankOrComment
          /\ CountsBlankOrComment => Lex(source).mode \in {"code", "comment", "q2"}
          /\ (char \in QUOTES /\ Lex(source).mode = "comment")
                => (cl.parse_state \in StringStates \/ cl'.parse_state \notin StringStates)

\* C25: a line that is inside a triple-quoted string and looks like a blank
\* line or a comment-only line is counted as an executable line and not as a
\* blank or a comment line; a line is counted as blank or comment only where
\* the source is outside every string; and a quote character inside a
\* comment does not start a string.
C25_StringsAreObeyed == [][StringsAreObeyed]_vars

\* An empty string has been followed at once by a quote of the other kind:
\* two string literals side by side.
RECURSIVE AdjacentLiterals(_)
AdjacentLiterals(text) ==
    IF text = <<>> THEN FALSE
    ELSE LET front == SubSeq(text, 1, Len(text) - 1)
             st == CountLoop(CountStart, front)
         IN  \/ /\ st.parse_state = PS_START_STRING
                /\ st.quote_count = 2
                /\ text[Len(text)] \in QUOTES \ {st.quote_char}
             \/ AdjacentLiterals(front)

\* C25 holds of the sources that have no two string literals side by side.
C25_StringsAreObeyedApart == [][~AdjacentLiterals(source') => StringsAreObeyed]_vars

\* A blank line inside a triple-quoted string has been counted as executable.
C25_WitnessApart ==
    /\ pc = "count"
    /\ source = <<"'", "'", "'", NL, NL>>
    /\ cl.executable_lines = 2
    /\ cl.blank_lines = 0

\* An empty string literal has just ended: two quotes have been read and
\* char, the next character, is not a third.
EmptyStringEnded(char) ==
    /\ cl.parse_state = PS_START_STRING
    /\ cl.quote_count = 2
    /\ char # cl.quote_char

\* The locals after char as the state PS_EXECUTABLE leaves them
AsExecutable(char) == CountChar([cl EXCEPT !.parse_state = PS_EXECUTABLE], char)

\* C33: the character that follows an empty string literal is processed as
\* the state PS_EXECUTABLE processes it: the locals of count_lines after it
\* are those that a parser in that state reaches.
C33_AfterEmptyStringAsExecutable ==
    [][\A char \in SourceChars :
          (source' = Append(source, char) /\ EmptyStringEnded(char))
              => cl' = AsExecutable(char)]_vars

\* C33 holds of the characters that are no quote.
C33_AfterEmptyStringAsExecutableNoQuote ==
    [][\A char \in SourceChars \ QUOTES :
          (source' = Append(source, char) /\ EmptyStringEnded(char))
              => cl' = AsExecutable(char)]_vars

\* A comment after an empty string has been opened.
C33_WitnessNoQuote ==
    /\ pc = "count"
    /\ source = <<"a", "\"", "\"", "#">>
    /\ cl.parse_state = PS_EXEC_COMMENT

-----------------------------------------------------------------------------
(* Properties of modstat's totals *)

\* The file of the name that a printed entry has
FileNamed(name) == CHOOSE file \in Files : file.name = name

\* The entries printed for files, in the order of the files
FileEntries(out) == SelectSeq(out, LAMBDA e : e.what # "Total")

\* The files of out that can be read and parsed
Successes(out) == SelectSeq(FileEntries(out), LAMBDA e : FileNamed(e.file).kind = "ok")

\* Sum over the files of the entries of the blank (1), comment (2) and
\* executable (3) lines that each file has, and of its docstring lines
RECURSIVE SumCounted(_, _)
SumCounted(entries, n) ==
    IF entries = <<>> THEN 0
    ELSE count_lines(FileNamed(Head(entries).file).program)[n] + SumCounted(Tail(entries), n)

RECURSIVE SumDocstrings(_)
SumDocstrings(entries) ==
    IF entries = <<>> THEN 0
    ELSE NodePicker(0, FileNamed(Head(entries).file).docstrings) + SumDocstrings(Tail(entries))

TotalsAreOfSuccesses ==
    pc \in {"files", "end"} =>
        /\ file_count = Len(Successes(printed))
        /\ total_blank_lines = SumCounted(Successes(printed), 1)
        /\ total_comment_lines = SumCounted(Successes(printed), 2)
        /\ total_executable_lines = SumCounted(Successes(printed), 3)
        /\ total_docstring_lines = SumDocstrings(Successes(printed))
        /\ Len(FileEntries(printed)) >= Len(printed) - 1
        /\ (pc = "end" => (Len(FileEntries(printed)) < Len(printed) <=> Len(Successes(printed)) > 1))
        /\ (pc = "files" => FileEntries(printed) = printed)

\* The step of a file that cannot be read or parsed changes no total and
\* not the count of files, and the loop over the files goes on.
FailureChangesNothing ==
    (pc = "files" /\ Len(printed') > Len(printed) /\ printed' # <<>>
        /\ printed'[Len(printed')].what \notin {"Lines", "Total"})
    => /\ FileNamed(printed'[Len(printed')].file).kind # "ok"
       /\ pc' = "files"
       /\ UNCHANGED <<file_count, total_blank_lines, total_comment_lines,
                      total_executable_lines, total_docstring_lines>>

\* The step of a file that is not "ok" prints no line counts for it.
FailureIsPrinted ==
    \A k \in 1 .. Len(printed) :
        printed[k].what = "Lines" <=> (printed[k].what # "Total" /\ FileNamed(printed[k].file).kind = "ok")

\* C26: after any files, the count of files and the four grand totals are
\* the sums over the files that were read and parsed, and over no others; a
\* file that cannot be read or parsed changes none of them and the loop
\* goes on to the next file; the grand totals are printed at the end, and
\* only when more than one file was processed.
C26_TotalsAreOfSuccesses ==
    /\ [](TotalsAreOfSuccesses /\ FailureIsPrinted)
    /\ [][FailureChangesNothing]_vars

\* Two files were processed, one with a docstring, a file with a syntax
\* error between them, and the grand totals are printed.
C26_Witness ==
    /\ pc = "end"
    /\ Len(printed) = 4
    /\ printed[1].what = "Lines"
    /\ printed[2].what = "syntax"
    /\ printed[3].what = "Lines" /\ printed[3].docstring = 3
    /\ printed[4].what = "Total" /\ printed[4].files = 2
    /\ total_executable_lines = 4

\* The names that the import statements of a file alone give, and the
\* 2-tuples that its from/import statements alone give
OwnImports(file) == VisitImports(<<>>, file.imports)
OwnFromImports(file) == VisitImportFroms(<<>>, file.from_imports)

\* Two lists hold the same items, each as many times as the other.
SameItems(xs, ys) ==
    /\ Len(xs) = Len(ys)
    /\ \A k \in 1 .. Len(xs) :
           Cardinality({j \in 1 .. Len(xs) : xs[j] = xs[k]})
               = Cardinality({j \in 1 .. Len(ys) : ys[j] = xs[k]})

\* Before a file and after the last one, both lists are empty.
ListsAreDrained ==
    pc \in {"files", "end"} => import_names = <<>> /\ from_import_names = <<>>

\* The report of a file names the modules and identifiers of its own
\* statements and no others, and the docstring lines of its own docstrings.
ReportIsOfItsFile ==
    \A k \in 1 .. Len(printed) :
        printed[k].what = "Lines" =>
            LET file == FileNamed(printed[k].file)
                own == OwnFromImports(file)
            IN  /\ SameItems(printed[k].imports, OwnImports(file))
                /\ SameItems(printed[k].from_imports,
                             [j \in 1 .. Len(own) |->
                                 [module |-> own[j].mod_name,
                                  identifiers |-> own[j].identifier_list]])
                /\ printed[k].docstring = NodePicker(0, file.docstrings)

\* The step of a file leaves in docstring_lines what that file alone has:
\* nothing of a file that cannot be processed.
DocstringsStartAtZero ==
    (Len(printed') > Len(printed) /\ pc' = "files")
    => LET entry == printed'[Len(printed')]
       IN  docstring_lines' = IF entry.what = "Lines"
                              THEN NodePicker(0, FileNamed(entry.file).docstrings)
                              ELSE 0

\* C39: at the start of each file the per-file state is clean: import_names
\* and from_import_names are empty, because the report of a processed file
\* pops every item of both, and docstring_lines counts from zero; the
\* report of a file shows no name that an earlier file has collected.
C39_PerFileStateIsClean ==
    /\ [](ListsAreDrained /\ ReportIsOfItsFile)
    /\ [][DocstringsStartAtZero]_vars

\* A file with a docstring, then a file with three imported modules, then
\* a file with no import at all have been reported.
C39_Witness ==
    /\ pc = "files"
    /\ Len(printed) = 3
    /\ printed[1].file = "d.py" /\ printed[1].docstring = 3
    /\ printed[2].file = "i.py" /\ printed[2].docstring = 0
    /\ printed[2].imports = <<<<"a", "s", "t", SP, "a", "s", SP, "t">>, <<"o", "s">>, <<"s", "y", "s">>>>
    /\ printed[3].file = "a.py"
    /\ printed[3].imports = <<>> /\ printed[3].from_imports = <<>>
    /\ import_names = <<>>
    /\ docstring_lines = 0

-----------------------------------------------------------------------------
(* Properties of both parsers *)

\* The parser returned no error and no record: every value is None.
ReturnedSkip ==
    /\ res.error_msg = NoError
    /\ IF "level" \in DOMAIN res
       THEN res.cat_code = <<>> /\ res.descr = <<>> /\ res.comment = <<>> /\ res.level = 0
       ELSE res.jdate = <<>> /\ res.jdescr = <<>> /\ res.jtype = <<>> /\ res.jcat_code = <<>>

\* Spaces and then nothing, a newline or a "#"
IsBlankOrComment(text) ==
    LeadSpaces(text) = Len(text) \/ text[LeadSpaces(text) + 1] \in {"#", NL}

\* C16: each parser returns skip, no error and no record, exactly for a line
\* of zero or more spaces and a newline, a line whose first character after
\* its spaces is "#", and a last line of spaces only without a newline.
C16_SkipIffBlankOrComment ==
    pc = "parsed" => (ReturnedSkip <=> IsBlankOrComment(line))

\* The journal parser has skipped a last line of two spaces without newline.
C16_Witness ==
    /\ pc = "parsed"
    /\ line = <<SP, SP>>
    /\ "jamt" \in DOMAIN res
    /\ ReturnedSkip

\* The line has no newline: the file ended before one.
HasNoNewline(text) == \A k \in 1 .. Len(text) : text[k] # NL

\* A category line without its newline reaches the end of input outside the
\* state START (it is neither blank nor a comment): it is an error, and the
\* format error when it lacks the newline only.
CatLineCutShort ==
    ("level" \in DOMAIN res /\ HasNoNewline(line) /\ ~IsBlankOrComment(line)) =>
        /\ res.error_msg # NoError
        /\ parse_cat_file_line(line \o <<NL>>).error_msg = NoError
              => res = CatErr("Error, invalid category file format")

\* What follows the category code of a transaction line
AfterGoodJournal(text) == SubSeq(text, Len(GoodJournal) + 1, Len(text))

IsGoodJournal(text) ==
    Len(text) >= Len(GoodJournal) /\ SubSeq(text, 1, Len(GoodJournal)) = GoodJournal

AcceptedGoodJournal ==
    /\ res.error_msg = NoError
    /\ res.jamt = 100
    /\ res.jcat_code = <<"1", ".", "1">>

\* C32: a category line that reaches the end of input in a state other than
\* START is a format error; and a complete transaction line is accepted when
\* a space follows its category code, when the newline does, and when the
\* input ends there.
C32_LastLineWithoutNewline ==
    pc = "parsed" =>
        /\ CatLineCutShort
        /\ ("jamt" \in DOMAIN res /\ IsGoodJournal(line)
              /\ (AfterGoodJournal(line) = <<>> \/ AfterGoodJournal(line)[1] \in {SP, NL}))
              => AcceptedGoodJournal

\* C32 as the code has it: a complete transaction line is accepted when a
\* space or the newline follows its category code, and is the format error
\* when the input ends at the category code.
C32_LastLineNeedsSpaceOrNewline ==
    pc = "parsed" =>
        /\ CatLineCutShort
        /\ ("jamt" \in DOMAIN res /\ IsGoodJournal(line)) =>
              /\ (AfterGoodJournal(line) # <<>> /\ AfterGoodJournal(line)[1] \in {SP, NL})
                    => AcceptedGoodJournal
              /\ AfterGoodJournal(line) = <<>>
                    => res = JrnErr("Error, invalid journal file format")

\* The transaction line that ends at its category code has been refused.
C32_Witness ==
    /\ pc = "parsed"
    /\ line = GoodJournal
    /\ res = JrnErr("Error, invalid journal file format")

\* The same line with a space and no newline has been accepted, and the
\* category line "2 A" without newline refused.
C32_WitnessSpace ==
    /\ pc = "parsed"
    /\ line = GoodJournal \o <<SP>>
    /\ AcceptedGoodJournal

C32_WitnessCategory ==
    /\ pc = "parsed"
    /\ line = <<"2", SP, "A">>
    /\ res = CatErr("Error, invalid category file format")

=============================================================================
